---- MODULE Spec2Model ----
(***************************************************************************)
(* RSI crossover strategy (src/strategy.py, class RSIStrategy) as a state  *)
(* machine: the strategy object's fields, the orders it has submitted, and *)
(* the host engine that feeds bars and delivers position events.           *)
(*                                                                         *)
(* A Python float is an IEEE-754 double <<s, m, e>> of value s * m * 2^e   *)
(* with 2^52 <= m < 2^53, and every float operation is the exact operation *)
(* rounded to the nearest double, ties to the even significand.  A Decimal *)
(* (a price or a quantity of the venue) is <<s, c, q>> of value            *)
(* s * c * 10^q with 10 not dividing c, and its arithmetic is exact.       *)
(* float() of a decimal is the nearest double, str() of a float the        *)
(* shortest decimal that float() takes back to it.  m and c are natural    *)
(* numbers of any size, held as sequences of limbs.  Infinities, NaN,      *)
(* subnormal numbers and the sign of zero are not represented: the inputs  *)
(* keep every result within the normal range.                              *)
(*                                                                         *)
(* Optional values are sequences of length 0 (None) or 1.  The indicator   *)
(* and the venue are libraries outside the repository: the indicator       *)
(* yields an arbitrary value per bar and is initialized after rsi_period   *)
(* updates; the venue fills or rejects open orders in any order and        *)
(* reports the position events of a netting account.  An exception that    *)
(* leaves a handler ends the run.                                          *)
(*                                                                         *)
(* strategy.py names StrategyConfig and optimizer.py names Optional        *)
(* without importing them: where builtins do not bind the name, the import *)
(* of the module raises NameError and the run ends there.                  *)
(***************************************************************************)
EXTENDS Integers, Sequences, FiniteSets, TLC

VARIABLES
    config,                 \* RSIConfig bundle held in self.config
    rsi,                    \* the RelativeStrengthIndex object in self.rsi
    previous_rsi,           \* self.previous_rsi
    current_position,       \* self.current_position
    position_entry_price,   \* self.position_entry_price
    sl_order_id,            \* self.sl_order_id
    tp_order_id,            \* self.tp_order_id
    orders,                 \* every order handed to submit_order, with its status
    net_position,           \* the venue's signed net position (NETTING account)
    raised,                 \* exception that escaped the last handler, or "none"
    signals_skipped,        \* crossovers dropped because no size could be computed
    last,                   \* the last handler call: its inputs and what it did
    \* RSIOptimizer (src/optimizer.py) and the backtester it drives
    search_space,           \* what define_search_space returns
    max_combinations,       \* self.max_combinations
    np_random,              \* state of numpy's global generator
    generated,              \* last return value of generate_parameter_combinations
    generate_calls,         \* number of generate_parameter_combinations calls
    filters,                \* the filters argument of run_grid_search
    combinations,           \* run_grid_search: combinations
    grid_i,                 \* run_grid_search: enumerate index i of the loop
    backtest_calls,         \* parameters of every run_backtest call, in order
    results,                \* run_grid_search: results
    saved,                  \* files written by _save_results
    grid_pc,                \* position of run_grid_search
    grid_result,            \* what run_grid_search returned or raised
    \* BinanceDataLoader (src/data_loader.py)
    days,                   \* the days argument of get_data and run_grid_search
    force_download,         \* the force_download argument of get_data
    catalog,                \* bars held by the Parquet catalog
    catalog_at_call,        \* bars the catalog held when get_data was called
    catalog_ops,            \* catalog calls made by the last get_data, in order
    exchange_ms,            \* what exchange.milliseconds() returns
    since,                  \* download_historical_data: since
    all_ohlcv,              \* download_historical_data: all_ohlcv
    df,                     \* the frame get_data holds (downloaded or loaded)
    loader_pc,              \* position of get_data
    loader_result           \* what get_data returned or raised

strategy_vars ==
    <<config, rsi, previous_rsi, current_position, position_entry_price,
      sl_order_id, tp_order_id, orders, net_position, raised,
      signals_skipped, last>>

grid_vars ==
    <<search_space, max_combinations, generated, generate_calls, filters,
      combinations, grid_i, backtest_calls, results, saved, grid_pc,
      grid_result>>

optimizer_vars == <<grid_vars, np_random>>

call_vars ==
    <<days, force_download, catalog_at_call, exchange_ms, since, all_ohlcv, df,
      loader_pc, loader_result>>

loader_vars == <<call_vars, catalog, catalog_ops>>

vars == <<strategy_vars, optimizer_vars, loader_vars>>

-----------------------------------------------------------------------------
(* Bounds of the exploration *)

MaxBars == 3
MaxOrders == 6
MaxCombinations == 2
MaxGenerateCalls == 2
MaxClockTicks == 2

-----------------------------------------------------------------------------
(* Optional values *)

None == <<>>
Some(x) == <<x>>

-----------------------------------------------------------------------------
(* Numbers: naturals of any size, doubles and decimals *)

\* natural numbers as sequences of limbs, least significant first, no zero on top
Base == 10 ^ 4

Limb(a, i) == IF i \in DOMAIN a THEN a[i] ELSE 0

Trim(a) ==
    IF \A i \in DOMAIN a : a[i] = 0 THEN <<>>
    ELSE SubSeq(a, 1, CHOOSE i \in DOMAIN a : a[i] # 0 /\ \A j \in (i + 1)..Len(a) : a[j] = 0)

\* the n columns x[i] (each below 2^31) brought below 2 * Base + 21, on n + 2 columns
Spread(x, n) ==
    SubSeq([i \in 1..(n + 2) |-> (Limb(x, i) % Base) + ((Limb(x, i - 1) \div Base) % Base)
                                   + (Limb(x, i - 2) \div (Base * Base))], 1, n + 2)

\* the columns w[i] brought below Base + 3, on n + 3 columns
Folded(w, n) ==
    SubSeq([i \in 1..(n + 3) |-> (Limb(w, i) % Base) + (Limb(w, i - 1) \div Base)], 1, n + 3)

\* whether a carry reaches column i of u
CarryInto(u, i) == \E j \in 1..(i - 1) : u[j] >= Base /\ \A k \in (j + 1)..(i - 1) : u[k] = Base - 1

Rippled(u, n) == Trim([i \in 1..(n + 3) |-> (u[i] + IF CarryInto(u, i) THEN 1 ELSE 0) % Base])

\* the number whose n columns v[i] (each below 2^31) weigh Base^(i-1)
Norm(v, n) == Rippled(Folded(Spread(SubSeq(v, 1, n), n), n), n)

NatOf(n) == Norm(<<n>>, 1)

NCmp(a, b) ==
    IF Len(a) # Len(b) THEN (IF Len(a) < Len(b) THEN -1 ELSE 1)
    ELSE IF a = b THEN 0
    ELSE LET i == CHOOSE i \in DOMAIN a : a[i] # b[i] /\ \A j \in (i + 1)..Len(a) : a[j] = b[j]
         IN  IF a[i] < b[i] THEN -1 ELSE 1

NAdd(a, b) ==
    IF a = <<>> THEN b
    ELSE IF b = <<>> THEN a
    ELSE LET n == IF Len(a) > Len(b) THEN Len(a) ELSE Len(b)
         IN  Norm([i \in 1..n |-> Limb(a, i) + Limb(b, i)], n)

\* whether column i of the differences d has to lend to a column below it
BorrowFrom(d, i) == \E j \in 1..(i - 1) : d[j] < 0 /\ \A k \in (j + 1)..(i - 1) : d[k] = 0

Lent(d, n) == Trim([i \in 1..n |-> (d[i] - (IF BorrowFrom(d, i) THEN 1 ELSE 0) + Base) % Base])

\* a - b for a >= b
NSub(a, b) ==
    IF b = <<>> THEN a
    ELSE Lent(SubSeq([i \in 1..Len(a) |-> a[i] - Limb(b, i)], 1, Len(a)), Len(a))

\* a * k for 0 <= k <= 200000
NMulSmall(a, k) ==
    IF a = <<>> \/ k = 0 THEN <<>>
    ELSE IF k = 1 THEN a
    ELSE Norm([i \in 1..Len(a) |-> a[i] * k], Len(a))

RECURSIVE SumOf(_, _, _)
SumOf(f, lo, hi) ==
    IF lo > hi THEN 0
    ELSE IF lo = hi THEN f[lo]
    ELSE SumOf(f, lo, (lo + hi) \div 2) + SumOf(f, ((lo + hi) \div 2) + 1, hi)

\* a * b, the shorter of the two of at most 21 limbs
NMul(a, b) ==
    IF a = <<>> \/ b = <<>> THEN <<>>
    ELSE LET la == Len(a)
             lb == Len(b)
             col(k) == LET lo == IF k + 1 - lb > 1 THEN k + 1 - lb ELSE 1
                           hi == IF k < la THEN k ELSE la
                       IN  SumOf([i \in lo..hi |-> a[i] * b[k + 1 - i]], lo, hi)
         IN  Norm([k \in 1..(la + lb - 1) |-> col(k)], la + lb - 1)

Pow10Small(k) == CASE k = 0 -> 1 [] k = 1 -> 10 [] k = 2 -> 100 [] OTHER -> 1000

\* a * 10^k
NMulPow10(a, k) ==
    IF a = <<>> THEN <<>>
    ELSE [i \in 1..(k \div 4) |-> 0] \o NMulSmall(a, Pow10Small(k % 4))

\* a divided by s, one of 2, 4, 8, 16, 10, 100, 1000 (each divides Base), rounded down
NDivSmall(a, s) == Trim([i \in 1..Len(a) |-> (Limb(a, i + 1) % s) * (Base \div s) + (a[i] \div s)])

\* a divided by 10^k, rounded down
NDivPow10(a, k) ==
    IF k = 0 THEN a
    ELSE IF (k \div 4) >= Len(a) THEN <<>>
    ELSE NDivSmall(SubSeq(a, (k \div 4) + 1, Len(a)), Pow10Small(k % 4))

\* whether 10^k divides a
NDividesPow10(a, k) ==
    /\ \A i \in 1..(k \div 4) : Limb(a, i) = 0
    /\ (Limb(a, (k \div 4) + 1) % Pow10Small(k % 4)) = 0

\* a * 2^k
RECURSIVE NMulPow2(_, _)
NMulPow2(a, k) ==
    IF k <= 0 THEN a
    ELSE NMulSmall(NMulPow2(a, IF k > 17 THEN k - 17 ELSE 0), 2 ^ (IF k > 17 THEN 17 ELSE k))

\* a * 5^k
RECURSIVE NMulPow5(_, _)
NMulPow5(a, k) ==
    IF k <= 0 THEN a
    ELSE NMulSmall(NMulPow5(a, IF k > 7 THEN k - 7 ELSE 0), 5 ^ (IF k > 7 THEN 7 ELSE k))

NPow2(k) == NMulPow2(<<1>>, k)

NPow10(k) == NMulPow10(<<1>>, k)

\* the number of decimal digits of a > 0
NDigits(a) ==
    4 * (Len(a) - 1) + (IF a[Len(a)] >= 1000 THEN 4 ELSE IF a[Len(a)] >= 100 THEN 3
                        ELSE IF a[Len(a)] >= 10 THEN 2 ELSE 1)

\* the greatest k <= 26 with 2^k <= t, for 0 < t < 2^27
BitsOf(t) == CHOOSE k \in 0..26 : 2 ^ k <= t /\ t < 2 ^ (k + 1)

\* k with 2^k <= a < 2^(k+2), for a > 0: from the two top limbs, and Base^r >= 2^(13 r + (r * 28771) \div 100000)
Log2Floor(a) ==
    IF Len(a) >= 2
    THEN BitsOf(a[Len(a)] * Base + a[Len(a) - 1]) + 13 * (Len(a) - 2) + (((Len(a) - 2) * 28771) \div 100000)
    ELSE BitsOf(a[1])

\* the greatest q' <= q with q' * d <= r
RECURSIVE Fitting(_, _, _)
Fitting(r, d, q) == IF NCmp(NMulSmall(d, q), r) <= 0 THEN q ELSE Fitting(r, d, q - 1)

\* one digit of a long division: the greatest q with q * d <= r, where r < d * Base and
\* the top limb of d is at least Base / 2, so that the estimate from the top limbs is at most 2 over
QuotDigit(r, d) ==
    LET est == (Limb(r, Len(d) + 1) * Base + Limb(r, Len(d))) \div d[Len(d)]
    IN  Fitting(r, d, IF est > Base - 1 THEN Base - 1 ELSE est)

\* the digit q joins the digits qs of the quotient and leaves the remainder r - q * d
DivStep(qs, r, d, q) == <<<<q>> \o qs, NSub(r, NMulSmall(d, q))>>

\* long division of a by d from the top limb down to limb j: the limbs of the quotient from j up,
\* and the remainder
RECURSIVE LongDiv(_, _, _)
LongDiv(a, d, j) ==
    IF j > Len(a) - Len(d) + 1 THEN <<<<>>, Trim(SubSeq(a, j, Len(a)))>>
    ELSE LET above == LongDiv(a, d, j + 1)
             r == Trim(<<a[j]>> \o above[2])
         IN  IF above[2] = <<>> /\ a[j] = 0 THEN <<<<0>> \o above[1], <<>>>>
             ELSE DivStep(above[1], r, d, QuotDigit(r, d))

\* the quotient and whether the remainder is zero, of the result of LongDiv
Quotient(r) == <<Trim(r[1]), r[2] = <<>>>>

\* the quotient of a by d > 0 rounded down, and whether the division is exact; both are
\* first multiplied by a factor which brings the top limb of d to Base / 2 or more
NDiv(a, d) ==
    IF a = <<>> THEN <<<<>>, TRUE>>
    ELSE IF d = <<1>> THEN <<a, TRUE>>
    ELSE Quotient(LongDiv(NMulSmall(a, Base \div (d[Len(d)] + 1)),
                          NMulSmall(d, Base \div (d[Len(d)] + 1)), 1))

Two52 == NPow2(52)
Two53 == NPow2(53)
Two54 == NPow2(54)
Two55 == NPow2(55)
Two56 == NPow2(56)

\* doubles: <<sign, m, e>> with value sign * m * 2^e, 2^52 <= m < 2^53; zero is <<0, <<>>, 0>>
BZero == <<0, <<>>, 0>>

\* the mantissa m <= 2^53 and the exponent e of a rounded quotient, 2^53 brought back to 2^52
Normal(m, e) == IF m = Two53 THEN <<Two52, e + 1>> ELSE <<m, e>>

\* the quotient with its last bits gone (m0), what they were (low) and half a unit of m0:
\* to the nearest, ties to the even mantissa
RoundUp(m0, low, half, exact, e) ==
    Normal(IF low > half \/ (low = half /\ (~exact \/ (m0[1] % 2) = 1)) THEN NAdd(m0, <<1>>) ELSE m0, e)

\* 2^53 <= q < 2^57: sh bits go
ShiftOf(q) ==
    1 + (IF NCmp(q, Two54) >= 0 THEN 1 ELSE 0) + (IF NCmp(q, Two55) >= 0 THEN 1 ELSE 0)
      + (IF NCmp(q, Two56) >= 0 THEN 1 ELSE 0)

RoundShift(q, exact, sh, e) == RoundUp(NDivSmall(q, 2 ^ sh), q[1] % (2 ^ sh), 2 ^ (sh - 1), exact, e + sh)

RoundQuotient(qr, e) == RoundShift(qr[1], qr[2], ShiftOf(qr[1]), e)

\* n * 2^t / d rounded down, and whether the division is exact
Scaled(n, d, t) == NDiv(IF t > 0 THEN NMulPow2(n, t) ELSE n, IF t < 0 THEN NMulPow2(d, -t) ELSE d)

RoundScaled(n, d, t) == RoundQuotient(Scaled(n, d, t), -t)

\* the double nearest to n / d (n, d > 0), ties to the even mantissa: <<m, e>> with
\* 2^52 <= m < 2^53 and value m * 2^e
RoundRatio(n, d) == RoundScaled(n, d, 55 - (Log2Floor(n) - Log2Floor(d)))

\* the double of sign s whose mantissa and exponent are those of r, times 2^e
Binary(s, r, e) == <<s, r[1], r[2] + e>>

\* decimals: <<sign, c, q>> with value sign * c * 10^q, 10 not dividing c; zero is <<0, <<>>, 0>>
DZero == <<0, <<>>, 0>>

\* the number of zeros that end the decimal digits of c > 0
TrailingZeros(c) == CHOOSE z \in 0..NDigits(c) : NDividesPow10(c, z) /\ ~NDividesPow10(c, z + 1)

Stripped(s, c, q, z) == <<s, NDivPow10(c, z), q + z>>

Decimal(s, c, q) == IF c = <<>> THEN DZero ELSE Stripped(s, c, q, TrailingZeros(c))

\* the decimal n * 10^q of an integer n
Dec(n, q) ==
    IF n = 0 THEN DZero
    ELSE Decimal(IF n < 0 THEN -1 ELSE 1, NatOf(IF n < 0 THEN -n ELSE n), q)

\* float(d): the double nearest to the decimal d
BinaryOf(d) ==
    IF d[1] = 0 THEN BZero
    ELSE Binary(d[1], RoundRatio(IF d[3] >= 0 THEN NMulPow10(d[2], d[3]) ELSE d[2],
                                 IF d[3] >= 0 THEN <<1>> ELSE NPow10(-d[3])), 0)

\* a double v and the range lo..hi of the numbers that float() takes to it, as <<lo, v, hi>> in
\* quarters of its last place: the range ends halfway to the next doubles, u being half the
\* distance to the one above, and takes the ends in when the mantissa is even
Around(v, u, power_of_two, even) ==
    << NAdd(NSub(v, IF power_of_two THEN u ELSE NMulSmall(u, 2)), IF even THEN <<>> ELSE <<1>>),
       v,
       NSub(NAdd(v, NMulSmall(u, 2)), IF even THEN <<>> ELSE <<1>>) >>

\* the least and the greatest multiples of 10^k within lo..hi, in units of 10^k
Lowest(lo, k) == NAdd(NDivPow10(lo, k), IF NDividesPow10(lo, k) THEN <<>> ELSE <<1>>)

Highest(hi, k) == NDivPow10(hi, k)

\* the greatest k' <= k for which a multiple of 10^k' lies within lo..hi
RECURSIVE DigitsDropped(_, _, _)
DigitsDropped(lo, hi, k) ==
    IF NCmp(Lowest(lo, k), Highest(hi, k)) <= 0 THEN k ELSE DigitsDropped(lo, hi, k - 1)

\* fl = v / 10^k rounded down, to the nearest with ties to even; digit is the digit that
\* follows it and rest whether only zeros follow that digit
RoundedUp(fl, digit, rest) ==
    IF digit > 5 \/ (digit = 5 /\ (~rest \/ (Limb(fl, 1) % 2) = 1)) THEN NAdd(fl, <<1>>) ELSE fl

Nearest(v, k) ==
    RoundedUp(NDivPow10(v, k),
              IF k = 0 THEN 0 ELSE Limb(NDivPow10(v, k - 1), 1) % 10,
              IF k = 0 THEN TRUE ELSE NDividesPow10(v, k - 1))

Clamped(c, lowest, highest) ==
    IF NCmp(c, lowest) < 0 THEN lowest ELSE IF NCmp(c, highest) > 0 THEN highest ELSE c

\* the multiple of 10^k within iv[1]..iv[3] nearest to iv[2], as a decimal in units 10^x
ShortestAt(s, iv, x, k) ==
    Decimal(s, Clamped(Nearest(iv[2], k), Lowest(iv[1], k), Highest(iv[3], k)), x + k)

\* the decimal of fewest digits within iv[1]..iv[3], the one nearest to iv[2]
ShortestIn(s, iv, x) ==
    ShortestAt(s, iv, x, DigitsDropped(iv[1], iv[3], NDigits(iv[2]) - 1))

\* repr of a double: the shortest decimal that float() takes back to it, the one
\* nearest to it when there are several; the units are 2^(e-2) = u * 10^x
DecimalOf(b) ==
    IF b[1] = 0 THEN DZero
    ELSE ShortestIn(b[1],
                    Around(IF b[3] >= 2 THEN NMulPow2(NMulSmall(b[2], 4), b[3] - 2)
                                        ELSE NMulPow5(NMulSmall(b[2], 4), 2 - b[3]),
                           IF b[3] >= 2 THEN NPow2(b[3] - 2) ELSE NMulPow5(<<1>>, 2 - b[3]),
                           b[2] = Two52, (b[2][1] % 2) = 0),
                    IF b[3] >= 2 THEN 0 ELSE b[3] - 2)

BMul(x, y) ==
    IF x[1] = 0 \/ y[1] = 0 THEN BZero
    ELSE Binary(x[1] * y[1], RoundRatio(NMul(x[2], y[2]), <<1>>), x[3] + y[3])

BDiv(x, y) ==
    IF x[1] = 0 THEN BZero
    ELSE Binary(x[1] * y[1], RoundRatio(x[2], y[2]), x[3] - y[3])

BNeg(x) == <<-x[1], x[2], x[3]>>

\* the sum of sx * a and sy * b, times 2^e
AddAligned(sx, a, sy, b, e) ==
    IF sx # sy /\ a = b THEN BZero
    ELSE Binary(IF sx = sy \/ NCmp(a, b) > 0 THEN sx ELSE sy,
                RoundRatio(IF sx = sy THEN NAdd(a, b)
                           ELSE IF NCmp(a, b) > 0 THEN NSub(a, b) ELSE NSub(b, a), <<1>>),
                e)

BAdd(x, y) ==
    IF x[1] = 0 THEN y
    ELSE IF y[1] = 0 THEN x
    ELSE AddAligned(x[1], NMulPow2(x[2], x[3] - (IF x[3] < y[3] THEN x[3] ELSE y[3])),
                    y[1], NMulPow2(y[2], y[3] - (IF x[3] < y[3] THEN x[3] ELSE y[3])),
                    IF x[3] < y[3] THEN x[3] ELSE y[3])

\* exact decimal arithmetic
DNeg(x) == <<-x[1], x[2], x[3]>>
DAbs(x) == <<IF x[1] = 0 THEN 0 ELSE 1, x[2], x[3]>>

MagCmp(x, y) ==
    NCmp(NMulPow10(x[2], IF x[3] > y[3] THEN x[3] - y[3] ELSE 0),
         NMulPow10(y[2], IF y[3] > x[3] THEN y[3] - x[3] ELSE 0))

DCmp(x, y) ==
    IF x[1] # y[1] THEN (IF x[1] < y[1] THEN -1 ELSE 1)
    ELSE IF x[1] = 0 THEN 0
    ELSE x[1] * MagCmp(x, y)

DLt(x, y) == DCmp(x, y) < 0

\* the sum of sx * a and sy * b, times 10^q
DAddAligned(sx, a, sy, b, q) ==
    IF sx # sy /\ a = b THEN DZero
    ELSE Decimal(IF sx = sy \/ NCmp(a, b) > 0 THEN sx ELSE sy,
                 IF sx = sy THEN NAdd(a, b)
                 ELSE IF NCmp(a, b) > 0 THEN NSub(a, b) ELSE NSub(b, a),
                 q)

DAdd(x, y) ==
    IF x[1] = 0 THEN y
    ELSE IF y[1] = 0 THEN x
    ELSE DAddAligned(x[1], NMulPow10(x[2], x[3] - (IF x[3] < y[3] THEN x[3] ELSE y[3])),
                     y[1], NMulPow10(y[2], y[3] - (IF x[3] < y[3] THEN x[3] ELSE y[3])),
                     IF x[3] < y[3] THEN x[3] ELSE y[3])

BCmp(x, y) ==
    IF x[1] # y[1] THEN (IF x[1] < y[1] THEN -1 ELSE 1)
    ELSE IF x[1] = 0 THEN 0
    ELSE IF x[3] # y[3] THEN (IF x[3] < y[3] THEN -x[1] ELSE x[1])
    ELSE x[1] * NCmp(x[2], y[2])

\* the double a literal n * 10^q denotes
Double(n, q) == BinaryOf(Dec(n, q))

\* float(n) of an int n, 0 < n < 2^27: no rounding takes place
FloatOfInt(n) == <<1, NMulPow2(NatOf(n), 52 - BitsOf(n)), BitsOf(n) - 52>>

-----------------------------------------------------------------------------
(* Inputs the environment may supply *)

\* RSIConfig.__init__: the parameters are stored as given
RSIConfig(rsi_period, oversold_threshold, overbought_threshold, stop_loss_pct, take_profit_pct, position_size_pct) ==
    [rsi_period |-> rsi_period,
     oversold_threshold |-> oversold_threshold,
     overbought_threshold |-> overbought_threshold,
     stop_loss_pct |-> stop_loss_pct,
     take_profit_pct |-> take_profit_pct,
     position_size_pct |-> position_size_pct]

\* the defaults of RSIConfig.__init__: 1.5, 3.0 and 2.0
DefaultStopLossPct == Double(15, -1)
DefaultTakeProfitPct == Double(3, 0)
DefaultPositionSizePct == Double(2, 0)

\* RSIConfig(...) values the strategy may be constructed with
Configs ==
    { RSIConfig(3, 30, 70, DefaultStopLossPct, DefaultTakeProfitPct, DefaultPositionSizePct),
      RSIConfig(1, 70, 30, Double(2, 0), Double(5, 0), Double(1, 0)),
      RSIConfig(3, 30, 70, Double(1, -15), DefaultTakeProfitPct, DefaultPositionSizePct) }

\* values self.rsi.value may take once the indicator is initialized
RSIValues == {20, 30, 80}

\* what the portfolio answers on one bar: account(venue), balance_free(venue)
\* and last_price(instrument), a Money and a Price; last_price = None stands
\* for a lookup that raises AttributeError, KeyError or ValueError
Balances == {Dec(0, 0), Dec(10000, 0)}
LastPrices == {None, Some(Dec(0, 0)), Some(Dec(1000, 0)), Some(Dec(2000, 0))}
NoPortfolio == [account |-> FALSE, balance_free |-> DZero, last_price |-> None]
Portfolios ==
    [account : {TRUE}, balance_free : Balances, last_price : LastPrices]
        \cup [account : {FALSE}, balance_free : {DZero}, last_price : LastPrices]

\* prices at which the venue may fill a market order
FillPrices == {Dec(2000, 0)}

-----------------------------------------------------------------------------
(* Float arithmetic of the strategy *)

FZero == BZero

\* the ints 1 and 100 where Python takes them to floats
One == FloatOfInt(1)
Hundred == FloatOfInt(100)

\* float(d) of a Decimal, a Price or a Money d
Float(d) == BinaryOf(d)

\* a * b, a / b (b other than 0.0), a + b, a - b, -a and a < b of floats
FMul(a, b) == BMul(a, b)
FDiv(a, b) == BDiv(a, b)
FAdd(a, b) == BAdd(a, b)
FNeg(a) == BNeg(a)
FSub(a, b) == BAdd(a, BNeg(b))
FLt(a, b) == BCmp(a, b) < 0

-----------------------------------------------------------------------------
(* Results of a call: the exception it raised ("none" if it returned), the *)
(* value it returned and the orders it handed to submit_order.             *)

Return(v) == [raised |-> "none", value |-> v, submitted |-> <<>>]
Raise(e) == [raised |-> e, value |-> None, submitted |-> <<>>]
Submit(o) == [raised |-> "none", value |-> None, submitted |-> <<o>>]

MarketOrder(order_side, quantity, tags) ==
    [kind |-> "MARKET", order_side |-> order_side, quantity |-> quantity,
     price |-> None, tags |-> tags, status |-> "open"]

StopMarketOrder(order_side, quantity, trigger_price, tags) ==
    [kind |-> "STOP_MARKET", order_side |-> order_side, quantity |-> quantity,
     price |-> Some(trigger_price), tags |-> tags, status |-> "open"]

LimitOrder(order_side, quantity, price, tags) ==
    [kind |-> "LIMIT", order_side |-> order_side, quantity |-> quantity,
     price |-> Some(price), tags |-> tags, status |-> "open"]

\* Decimal(str(x)) of a float x: the decimal its repr shows
DecimalOfStr(x) == DecimalOf(x)

-----------------------------------------------------------------------------
(* RelativeStrengthIndex as the strategy uses it *)

RelativeStrengthIndex(period) ==
    [period |-> period, count |-> 0, value |-> None, initialized |-> FALSE]

\* the values self.rsi.value can show after one more update_raw
RSIOutputs(ind) ==
    IF ind.count + 1 >= ind.period
    THEN {Some(v) : v \in RSIValues}
    ELSE {Some(v) : v \in RSIValues} \cup {None}

update_raw(ind, value) ==
    [ind EXCEPT !.count = ind.count + 1,
                !.value = value,
                !.initialized = (ind.count + 1 >= ind.period)]

-----------------------------------------------------------------------------
(* RSIStrategy *)

_get_current_price(portfolio) ==
    IF portfolio.last_price = None
    THEN None
    ELSE Some(Float(portfolio.last_price[1]))

\* the return statement of _calculate_position_size and the check before it
SizeAt(position_size_usdt, current_price) ==
    IF current_price = None
    THEN Return(None)
    ELSE IF current_price[1] = FZero
         THEN Raise("ZeroDivisionError")
         ELSE Return(Some(FDiv(position_size_usdt, current_price[1])))

\* the sizing without the account check
_calculate_position_size_NoAccountCheck(self_config, portfolio) ==
    SizeAt(FMul(Float(portfolio.balance_free),
                FDiv(self_config.position_size_pct, Hundred)),
           _get_current_price(portfolio))

\* the sizing with position_size_pct taken as a fraction, not a percentage
_calculate_position_size_PctAsFraction(self_config, portfolio) ==
    IF ~portfolio.account
    THEN Return(None)
    ELSE SizeAt(FMul(Float(portfolio.balance_free), self_config.position_size_pct),
                _get_current_price(portfolio))

\* free_balance * (position_size_pct / 100) is position_size_usdt
_calculate_position_size(self_config, portfolio) ==
    IF ~portfolio.account
    THEN Return(None)
    ELSE SizeAt(FMul(Float(portfolio.balance_free),
                     FDiv(self_config.position_size_pct, Hundred)),
                _get_current_price(portfolio))

\* _open_long_position and _open_short_position from the check of
\* position_size on
EntryOrder(order_side, tags, position_size, current_price) ==
    IF position_size.raised # "none"
    THEN position_size
    ELSE IF position_size.value = None
         THEN Return(None)
         ELSE IF current_price = None
              THEN Return(None)
              ELSE Submit(MarketOrder(order_side,
                                      DecimalOfStr(position_size.value[1]),
                                      tags))

_open_long_position(self_config, initialized, portfolio) ==
    IF ~initialized
    THEN Return(None)
    ELSE EntryOrder("BUY", "RSI_LONG_ENTRY",
                    _calculate_position_size(self_config, portfolio),
                    _get_current_price(portfolio))

\* the short entry submitted with the side of the long entry
_open_short_position_Buys(self_config, portfolio) ==
    EntryOrder("BUY", "RSI_SHORT_ENTRY",
               _calculate_position_size(self_config, portfolio),
               _get_current_price(portfolio))

_open_short_position(self_config, portfolio) ==
    EntryOrder("SELL", "RSI_SHORT_ENTRY",
               _calculate_position_size(self_config, portfolio),
               _get_current_price(portfolio))

\* a function as a table of its values
Table(f) == f @@ <<>>

\* what the two calls do for the configurations and the portfolios above,
\* worked out once
LongEntries ==
    Table([c \in Configs, initialized \in BOOLEAN, portfolio \in Portfolios |->
              _open_long_position(c, initialized, portfolio)])

ShortEntries ==
    Table([c \in Configs, portfolio \in Portfolios |->
              _open_short_position(c, portfolio)])

\* the crossover test with the threshold itself counted as beyond it
Signal_NonStrict(prev, current_rsi, oversold_threshold, overbought_threshold) ==
    IF prev <= oversold_threshold /\ current_rsi >= oversold_threshold
    THEN "LONG_ENTRY"
    ELSE IF prev >= overbought_threshold /\ current_rsi <= overbought_threshold
         THEN "SHORT_ENTRY"
         ELSE "NONE"

\* a long condition that looks at the level of the RSI only
LongCondition_LevelTriggered(prev, current_rsi, oversold_threshold) ==
    current_rsi >= oversold_threshold

\* the condition of the if: RSI crosses above the oversold threshold
LongCondition(prev, current_rsi, oversold_threshold) ==
    prev < oversold_threshold /\ current_rsi >= oversold_threshold

\* a short condition with the first comparison turned around
ShortCondition_FromBelow(prev, current_rsi, overbought_threshold) ==
    prev < overbought_threshold /\ current_rsi <= overbought_threshold

\* the condition of the elif: RSI crosses below the overbought threshold
ShortCondition(prev, current_rsi, overbought_threshold) ==
    prev > overbought_threshold /\ current_rsi <= overbought_threshold

\* the branch of the if/elif of _check_entry_signals that is taken
Signal(prev, current_rsi, oversold_threshold, overbought_threshold) ==
    IF LongCondition(prev, current_rsi, oversold_threshold)
    THEN "LONG_ENTRY"
    ELSE IF ShortCondition(prev, current_rsi, overbought_threshold)
         THEN "SHORT_ENTRY"
         ELSE "NONE"

\* the entry check without the open-position guard
PositionAlreadyOpen_Never == FALSE

\* the guard of _check_entry_signals
PositionAlreadyOpen == current_position # None

_check_entry_signals(ind, current_rsi, portfolio) ==
    IF PositionAlreadyOpen
    THEN Return(None)
    ELSE LET signal == Signal(previous_rsi[1], current_rsi,
                              config.oversold_threshold,
                              config.overbought_threshold)
         IN  IF signal = "LONG_ENTRY"
             THEN LongEntries[config, ind.initialized, portfolio]
             ELSE IF signal = "SHORT_ENTRY"
                  THEN ShortEntries[config, portfolio]
                  ELSE Return(None)

\* the guard of on_bar that ends the call before any crossover is looked at
WaitForRSI_IgnoresInitialized(ind) == previous_rsi = None \/ ind.value = None

WaitForRSI(ind) == ~ind.initialized \/ previous_rsi = None

NoCall ==
    [op |-> "none", signal |-> "NOT_EVALUATED", previous |-> None,
     current |-> None, portfolio |-> NoPortfolio, submitted |-> 0]

\* the branch _check_entry_signals takes, for the record of the call
SignalSeen(current_rsi) ==
    IF PositionAlreadyOpen
    THEN "NOT_EVALUATED"
    ELSE Signal(previous_rsi[1], current_rsi, config.oversold_threshold,
                config.overbought_threshold)

\* on_bar once the indicator is updated: an exception of
\* _check_entry_signals (r) leaves previous_rsi as it was
AfterUpdate(ind, current_rsi, portfolio, signal, r) ==
    IF WaitForRSI(ind)
    THEN /\ previous_rsi' = current_rsi
         /\ UNCHANGED <<orders, raised, signals_skipped>>
         /\ last' = [NoCall EXCEPT !.op = "on_bar",
                                   !.previous = previous_rsi,
                                   !.current = current_rsi]
    ELSE /\ Len(orders) + Len(r.submitted) <= MaxOrders
         /\ orders' = orders \o r.submitted
         /\ raised' = r.raised
         /\ signals_skipped' =
                IF /\ signal \in {"LONG_ENTRY", "SHORT_ENTRY"}
                   /\ r.raised = "none"
                   /\ r.submitted = <<>>
                THEN signals_skipped + 1
                ELSE signals_skipped
         /\ previous_rsi' = IF r.raised = "none"
                            THEN current_rsi
                            ELSE previous_rsi
         /\ last' = [op |-> "on_bar",
                     signal |-> signal,
                     previous |-> previous_rsi,
                     current |-> current_rsi,
                     portfolio |-> IF signal \in {"LONG_ENTRY", "SHORT_ENTRY"}
                                   THEN portfolio
                                   ELSE NoPortfolio,
                     submitted |-> Len(r.submitted)]

on_bar ==
    /\ raised = "none"
    /\ rsi.count < MaxBars
    /\ \E value \in RSIOutputs(rsi), portfolio \in Portfolios :
         /\ rsi' = update_raw(rsi, value)
         /\ AfterUpdate(update_raw(rsi, value), value, portfolio,
                        SignalSeen(value[1]),
                        _check_entry_signals(update_raw(rsi, value), value[1],
                                             portfolio))
    /\ UNCHANGED <<optimizer_vars, loader_vars>>
    /\ UNCHANGED <<config, current_position, position_entry_price,
                   sl_order_id, tp_order_id, net_position>>

\* the two branches of _attach_sl_tp_orders that set the price levels and
\* the sides of the protective orders
sl_price_LongFormulaOnly(self_config, side, entry_price) ==
    FMul(entry_price, FSub(One, FDiv(self_config.stop_loss_pct, Hundred)))

sl_price(self_config, side, entry_price) ==
    IF side = "LONG"
    THEN FMul(entry_price, FSub(One, FDiv(self_config.stop_loss_pct, Hundred)))
    ELSE FMul(entry_price, FAdd(One, FDiv(self_config.stop_loss_pct, Hundred)))

\* the take-profit level of a LONG position used for both sides
tp_price_AboveEntry(self_config, side, entry_price) ==
    FMul(entry_price, FAdd(One, FDiv(self_config.take_profit_pct, Hundred)))

tp_price(self_config, side, entry_price) ==
    IF side = "LONG"
    THEN FMul(entry_price, FAdd(One, FDiv(self_config.take_profit_pct, Hundred)))
    ELSE FMul(entry_price, FSub(One, FDiv(self_config.take_profit_pct, Hundred)))

sl_side(position) == IF position.side = "LONG" THEN "SELL" ELSE "BUY"

tp_side_AlwaysSell(position) == "SELL"

tp_side(position) == IF position.side = "LONG" THEN "SELL" ELSE "BUY"

\* float(position.avg_px_open) and the prices the two protective orders are
\* given: Decimal(str(sl_price)) and Decimal(str(tp_price))
LevelsAt(self_config, side, entry_price) ==
    [entry_price |-> entry_price,
     trigger_price |-> DecimalOfStr(sl_price(self_config, side, entry_price)),
     price |-> DecimalOfStr(tp_price(self_config, side, entry_price))]

\* positions the order book has room to open: the first needs an entry
\* order, and each brings two protective orders
MaxOpens == (MaxOrders - 1) \div 2

\* the prices of the protective orders in a table of levels
PricesOf(levels) ==
    UNION {{levels[x].trigger_price, levels[x].price} : x \in DOMAIN levels}

\* the levels for the prices at which the first k + 1 positions of a run may
\* open: a fill price of the venue, or the price of a protective order of an
\* earlier position
RECURSIVE Levels(_, _)
Levels(self_config, k) ==
    Table([side \in {"LONG", "SHORT"},
           avg_px_open \in IF k <= 0
                           THEN FillPrices
                           ELSE FillPrices \cup PricesOf(Levels(self_config, k - 1)) |->
              LevelsAt(self_config, side, Float(avg_px_open))])

\* the levels of every position a run can open, worked out once
ProtectiveLevels == Table([c \in Configs |-> Levels(c, MaxOpens - 1)])

_attach_sl_tp_orders(position, levels) ==
    LET quantity == position.quantity
    IN  << StopMarketOrder(sl_side(position), quantity, levels.trigger_price,
                           "STOP_LOSS"),
           LimitOrder(tp_side(position), quantity, levels.price,
                      "TAKE_PROFIT") >>

\* on_position_opened with the levels of the position at hand:
\* levels.entry_price is float(position.avg_px_open)
OpenedAt(position, book, levels) ==
    /\ current_position' = Some(position)
    /\ position_entry_price' = Some(levels.entry_price)
    /\ orders' = book \o _attach_sl_tp_orders(position, levels)

\* on_position_opened(event) with event.position = position; book is the
\* order book at the time the event is delivered
on_position_opened(position, book) ==
    OpenedAt(position, book,
             ProtectiveLevels[config][position.side, position.avg_px_open])

\* the close handler resetting the entry price to 0.0 instead of None
on_position_closed_EntryPriceZero ==
    /\ current_position' = None
    /\ position_entry_price' = Some(FZero)
    /\ sl_order_id' = None
    /\ tp_order_id' = None

\* the close handler without the reset of current_position
on_position_closed_KeepsPosition ==
    /\ current_position' = current_position
    /\ position_entry_price' = None
    /\ sl_order_id' = None
    /\ tp_order_id' = None

\* on_position_closed(event)
on_position_closed ==
    /\ current_position' = None
    /\ position_entry_price' = None
    /\ sl_order_id' = None
    /\ tp_order_id' = None

\* on_position_changed(event) only logs
on_position_changed ==
    UNCHANGED <<current_position, position_entry_price, sl_order_id, tp_order_id>>

\* RSIStrategy defines no on_order_rejected: the inherited handler does
\* nothing; book is the order book once the venue has rejected the order
on_order_rejected(book, order) ==
    /\ orders' = book
    /\ UNCHANGED <<current_position, position_entry_price, sl_order_id,
                   tp_order_id>>

\* a cancellation handler that takes the acknowledgement for a close
on_order_canceled_ClearsPosition(book, order) ==
    /\ orders' = book
    /\ current_position' = None
    /\ position_entry_price' = None
    /\ UNCHANGED <<sl_order_id, tp_order_id>>

\* RSIStrategy defines no on_order_canceled: the inherited handler does
\* nothing
on_order_canceled(book, order) ==
    /\ orders' = book
    /\ UNCHANGED <<current_position, position_entry_price, sl_order_id,
                   tp_order_id>>

-----------------------------------------------------------------------------
(* The host engine: it fills, rejects or cancels the submitted orders and  *)
(* delivers the order and position events of a NETTING account to the      *)
(* strategy.                                                               *)

Signed(o) == IF o.order_side = "BUY" THEN o.quantity ELSE DNeg(o.quantity)

FillPriceOf(o, px) == IF o.kind = "MARKET" THEN px ELSE o.price[1]

Filled(i) == [orders EXCEPT ![i].status = "filled"]

PositionOf(net, px) ==
    [side |-> IF DLt(DZero, net) THEN "LONG" ELSE "SHORT",
     quantity |-> DAbs(net),
     avg_px_open |-> px]

\* a fill that takes the account from flat to a position: PositionOpened
FillOpens ==
    /\ raised = "none"
    /\ net_position = DZero
    /\ Len(orders) + 2 <= MaxOrders
    /\ \E i \in 1..Len(orders), px \in FillPrices :
         /\ orders[i].status = "open"
         /\ orders[i].quantity # DZero
         /\ net_position' = Signed(orders[i])
         /\ on_position_opened(
                PositionOf(Signed(orders[i]), FillPriceOf(orders[i], px)),
                Filled(i))
    /\ last' = [NoCall EXCEPT !.op = "on_position_opened", !.submitted = 2]
    /\ UNCHANGED <<optimizer_vars, loader_vars>>
    /\ UNCHANGED <<config, rsi, previous_rsi, sl_order_id, tp_order_id, raised,
                   signals_skipped>>

\* a fill that brings the net position to zero: PositionClosed
FillCloses ==
    /\ raised = "none"
    /\ net_position # DZero
    /\ \E i \in 1..Len(orders) :
         /\ orders[i].status = "open"
         /\ DAdd(net_position, Signed(orders[i])) = DZero
         /\ orders' = Filled(i)
    /\ net_position' = DZero
    /\ on_position_closed
    /\ last' = [NoCall EXCEPT !.op = "on_position_closed"]
    /\ UNCHANGED <<optimizer_vars, loader_vars>>
    /\ UNCHANGED <<config, rsi, previous_rsi, raised, signals_skipped>>

\* a fill that grows or shrinks the position on its side: PositionChanged
FillChanges ==
    /\ raised = "none"
    /\ net_position # DZero
    /\ \E i \in 1..Len(orders) :
         LET net == DAdd(net_position, Signed(orders[i]))
         IN  /\ orders[i].status = "open"
             /\ orders[i].quantity # DZero
             /\ net # DZero
             /\ DLt(DZero, net) = DLt(DZero, net_position)
             /\ orders' = Filled(i)
             /\ net_position' = net
    /\ on_position_changed
    /\ last' = [NoCall EXCEPT !.op = "on_position_changed"]
    /\ UNCHANGED <<optimizer_vars, loader_vars>>
    /\ UNCHANGED <<config, rsi, previous_rsi, raised, signals_skipped>>

\* a fill larger than the position on the other side: the position is
\* closed and one on the other side is opened (PositionClosed, PositionOpened)
FillFlips ==
    /\ raised = "none"
    /\ net_position # DZero
    /\ Len(orders) + 2 <= MaxOrders
    /\ \E i \in 1..Len(orders), px \in FillPrices :
         LET net == DAdd(net_position, Signed(orders[i]))
         IN  /\ orders[i].status = "open"
             /\ net # DZero
             /\ DLt(DZero, net) # DLt(DZero, net_position)
             /\ net_position' = net
             /\ sl_order_id' = None
             /\ tp_order_id' = None
             /\ on_position_opened(
                    PositionOf(net, FillPriceOf(orders[i], px)), Filled(i))
    /\ last' = [NoCall EXCEPT !.op = "on_position_opened", !.submitted = 2]
    /\ UNCHANGED <<optimizer_vars, loader_vars>>
    /\ UNCHANGED <<config, rsi, previous_rsi, raised, signals_skipped>>

\* the venue rejects an entry order; the strategy has no handler for it
OrderRejected ==
    /\ raised = "none"
    /\ \E i \in 1..Len(orders) :
         /\ orders[i].status = "open"
         /\ orders[i].kind = "MARKET"
         /\ on_order_rejected([orders EXCEPT ![i].status = "rejected"], orders[i])
    /\ last' = [NoCall EXCEPT !.op = "on_order_rejected"]
    /\ UNCHANGED <<optimizer_vars, loader_vars>>
    /\ UNCHANGED <<config, rsi, previous_rsi, net_position, raised,
                   signals_skipped>>

\* the venue cancels an open order
OrderCanceled ==
    /\ raised = "none"
    /\ \E i \in 1..Len(orders) :
         /\ orders[i].status = "open"
         /\ on_order_canceled([orders EXCEPT ![i].status = "cancelled"], orders[i])
    /\ last' = [NoCall EXCEPT !.op = "on_order_canceled"]
    /\ UNCHANGED <<optimizer_vars, loader_vars>>
    /\ UNCHANGED <<config, rsi, previous_rsi, net_position, raised,
                   signals_skipped>>

\* the venue delivers a cancellation acknowledgement once more, for a
\* protective order that is already cancelled or filled
CancelAckRedelivered ==
    /\ raised = "none"
    /\ \E i \in 1..Len(orders) :
         /\ orders[i].tags \in {"STOP_LOSS", "TAKE_PROFIT"}
         /\ orders[i].status \in {"cancelled", "filled"}
         /\ on_order_canceled(orders, orders[i])
    /\ last' = [NoCall EXCEPT !.op = "on_order_canceled_again"]
    /\ UNCHANGED <<optimizer_vars, loader_vars>>
    /\ UNCHANGED <<config, rsi, previous_rsi, net_position, raised,
                   signals_skipped>>

\* a close event that reaches the strategy while it tracks no position
StalePositionClosed ==
    /\ raised = "none"
    /\ current_position = None
    /\ on_position_closed
    /\ last' = [NoCall EXCEPT !.op = "on_position_closed_stale"]
    /\ UNCHANGED <<optimizer_vars, loader_vars>>
    /\ UNCHANGED <<config, rsi, previous_rsi, orders, net_position, raised,
                   signals_skipped>>

-----------------------------------------------------------------------------
(* RSIStrategy.__init__ followed by on_start *)

\* the optimizer and the loader before any of their methods is called
OptimizerIdle ==
    /\ search_space = <<>>
    /\ max_combinations = 0
    /\ np_random = None
    /\ generated = None
    /\ generate_calls = 0
    /\ filters = <<>>
    /\ combinations = <<>>
    /\ grid_i = 0
    /\ backtest_calls = <<>>
    /\ results = <<>>
    /\ saved = <<>>
    /\ grid_pc = "idle"
    /\ grid_result = None

LoaderIdle ==
    /\ days = 0
    /\ force_download = FALSE
    /\ catalog = {}
    /\ catalog_at_call = {}
    /\ catalog_ops = <<>>
    /\ exchange_ms = 0
    /\ since = 0
    /\ all_ohlcv = <<>>
    /\ df = None
    /\ loader_pc = "idle"
    /\ loader_result = None

\* names that are bound in builtins when the modules are imported
Builtins == {{}, {"StrategyConfig"}, {"StrategyConfig", "Optional"}}

\* import strategy: the class statement of RSIConfig names the base class
\* StrategyConfig, which the module does not import
import_strategy(builtins) ==
    IF "StrategyConfig" \in builtins THEN "none" ELSE "NameError"

\* import optimizer: it imports backtest, which imports strategy; the def of
\* run_grid_search names Optional, which the module does not import
import_optimizer(builtins) ==
    IF import_strategy(builtins) # "none"
    THEN import_strategy(builtins)
    ELSE IF "Optional" \in builtins THEN "none" ELSE "NameError"

\* a run that ends with the import of the module: no strategy is constructed
StrategyNotImported(e) ==
    /\ config = None
    /\ rsi = None
    /\ previous_rsi = None
    /\ current_position = None
    /\ position_entry_price = None
    /\ sl_order_id = None
    /\ tp_order_id = None
    /\ orders = <<>>
    /\ net_position = DZero
    /\ raised = e
    /\ signals_skipped = 0
    /\ last = NoCall

StrategyStarted ==
    /\ config \in Configs
    /\ rsi = RelativeStrengthIndex(config.rsi_period)
    /\ previous_rsi = None
    /\ current_position = None
    /\ position_entry_price = None
    /\ sl_order_id = None
    /\ tp_order_id = None
    /\ orders = <<>>
    /\ net_position = DZero
    /\ raised = "none"
    /\ signals_skipped = 0
    /\ last = NoCall

Init ==
    /\ OptimizerIdle
    /\ LoaderIdle
    /\ \E builtins \in Builtins :
         IF import_strategy(builtins) = "none"
         THEN StrategyStarted
         ELSE StrategyNotImported(import_strategy(builtins))

Next ==
    \/ on_bar
    \/ FillOpens
    \/ FillCloses
    \/ FillChanges
    \/ FillFlips
    \/ OrderRejected
    \/ OrderCanceled
    \/ CancelAckRedelivered
    \/ StalePositionClosed

Spec == Init /\ [][Next]_vars

\* a strategy constructed with the defaults of RSIConfig, before any bar
StrategyIdle ==
    /\ config = RSIConfig(14, 30, 70, DefaultStopLossPct, DefaultTakeProfitPct,
                          DefaultPositionSizePct)
    /\ rsi = RelativeStrengthIndex(config.rsi_period)
    /\ previous_rsi = None
    /\ current_position = None
    /\ position_entry_price = None
    /\ sl_order_id = None
    /\ tp_order_id = None
    /\ orders = <<>>
    /\ net_position = DZero
    /\ raised = "none"
    /\ signals_skipped = 0
    /\ last = NoCall

-----------------------------------------------------------------------------
(* numpy's global generator: None while it is seeded from the system's     *)
(* entropy, otherwise the seed and the draws made since it was seeded      *)

\* a seeding that leaves an already seeded generator alone
np_random_seed_OnlyFirst(state, seed) ==
    IF state = None THEN Some([seed |-> seed, draws |-> <<>>]) ELSE state

\* np.random.seed(seed)
np_random_seed(state, seed) == Some([seed |-> seed, draws |-> <<>>])

\* one call of np.random.normal, uniform, lognormal or permutation for n values
np_random_draw(state, fn, n) ==
    Some([state[1] EXCEPT !.draws = Append(@, [fn |-> fn, n |-> n])])

\* np.random.permutation(n) of the generator seeded with 42 (MT19937,
\* init_genrand(42), Fisher-Yates from the last index with masked
\* rejection sampling) that has drawn permutations of n only, for the sizes
\* the search spaces below produce
np_random_permutation(state, n) ==
    IF n <= 1
    THEN [k \in 1..n |-> 0]
    ELSE CASE Len(state[1].draws) = 0 -> <<7, 1, 5, 0, 8, 2, 4, 3, 6>>
           [] Len(state[1].draws) = 1 -> <<0, 1, 5, 3, 4, 7, 8, 6, 2>>
           [] Len(state[1].draws) = 2 -> <<8, 2, 0, 6, 7, 5, 3, 1, 4>>
           [] Len(state[1].draws) = 3 -> <<1, 7, 6, 2, 8, 0, 3, 4, 5>>
           [] Len(state[1].draws) = 4 -> <<1, 5, 4, 8, 0, 7, 6, 3, 2>>
           [] Len(state[1].draws) = 5 -> <<7, 2, 5, 8, 3, 1, 0, 4, 6>>

\* np.random.choice(n, size, replace=False) is permutation(n)[:size]
np_random_choice(state, n, size) ==
    [value |-> SubSeq(np_random_permutation(state, n), 1, size),
     np_random |-> np_random_draw(state, "permutation", n)]

-----------------------------------------------------------------------------
(* BinanceDataLoader (src/data_loader.py)                                  *)
(*                                                                         *)
(* Time is in milliseconds since the epoch, as the exchange counts it.  A  *)
(* bar is known by its timestamp, a frame by its source and the list of    *)
(* its timestamps, and the catalog by the set of timestamps it holds (the  *)
(* factor of 10^6 of dt_to_unix_nanos is left out: it exceeds the range of *)
(* the checker's integers).  The result of a call that also draws random   *)
(* numbers or works on the catalog is a record of what it returned or      *)
(* raised and of what it left behind.                                      *)

MsPerDay == 24 * 60 * 60 * 1000
MsPerBar == 900000

\* the candles the exchange has at time now
BarTimes == {0, MsPerDay - MsPerBar, MsPerDay}
ExchangeBars(now) == {t \in BarTimes : t <= now}

\* the elements of a set of integers in ascending order
RECURSIVE SortedSeq(_)
SortedSeq(S) ==
    IF S = {}
    THEN <<>>
    ELSE LET least == CHOOSE t \in S : \A u \in S : t <= u
         IN  <<least>> \o SortedSeq(S \ {least})

DataFrame(source, index) == [source |-> source, index |-> index]
BarsOf(frame) == {frame.index[k] : k \in 1..Len(frame.index)}

\* exchange.fetch_ohlcv(symbol, timeframe, since, limit): the oldest candles
\* with a timestamp >= since, as many as the exchange puts on a page
\* (at least one if there is one, at most limit)
FetchPages(now, since_, limit) ==
    LET avail == SortedSeq({t \in ExchangeBars(now) : t >= since_})
    IN  IF avail = <<>>
        THEN {<<>>}
        ELSE {SubSeq(avail, 1, n) : n \in 1..(IF Len(avail) < limit
                                              THEN Len(avail) ELSE limit)}

\* since = ohlcv[-1][0] + 1
next_since(ohlcv) == ohlcv[Len(ohlcv)] + 1

\* _generate_synthetic_data(days): the generator is seeded with 42 and
\* draws the returns, the highs and the lows; with no bar at all,
\* df['close'].iloc[0] raises IndexError; otherwise the volumes are drawn and
\* the frame holds days * 96 bars, one per 15 minutes, starting days before
\* now
_generate_synthetic_data(days_, now, state) ==
    LET n_bars == days_ * 96
        returns == np_random_draw(np_random_seed(state, 42), "normal", n_bars)
        high == np_random_draw(returns, "uniform", n_bars)
        low == np_random_draw(high, "uniform", n_bars)
        volume == np_random_draw(low, "lognormal", n_bars)
    IN  IF n_bars = 0
        THEN [result |-> Raise("IndexError"), np_random |-> low]
        ELSE [result |-> Return(DataFrame("synthetic",
                             [k \in 1..n_bars |-> now - days_ * MsPerDay + (k - 1) * MsPerBar])),
              np_random |-> volume]

\* the except branches of download_historical_data: the handler of
\* ImportError lies within the outer try, so that an exception of its
\* _generate_synthetic_data reaches the handler of Exception, which
\* generates once more; an exception raised there leaves the method
synthetic_fallback(days_, now, state, e) ==
    LET inner == _generate_synthetic_data(days_, now, state)
    IN  IF e = "ImportError" /\ inner.result.raised # "none"
        THEN _generate_synthetic_data(days_, now, inner.np_random)
        ELSE inner

\* download_historical_data(days) as one call, on an exchange whose clock
\* stands still and which answers every fetch with all the candles it has:
\* the loop ends with the candles from since on
download_historical_data(days_, now, state, ccxt) ==
    IF ccxt = "installed"
    THEN LET since_ == now - (days_ * 24 * 60 * 60 * 1000)
         IN  [result |-> Return(DataFrame("binance",
                             IF since_ < now
                             THEN SortedSeq({t \in ExchangeBars(now) : t >= since_})
                             ELSE <<>>)),
              np_random |-> state]
    ELSE synthetic_fallback(days_, now, state, ccxt)

\* _catalog_exists(): query is what catalog.bars(..., limit=1) does, "ok" or
\* the exception it raises; the method catches three and lets the others pass
_catalog_exists(cat, query) ==
    IF query = "ok"
    THEN Return(Cardinality(cat) > 0)
    ELSE IF query \in {"FileNotFoundError", "KeyError", "AttributeError"}
         THEN Return(FALSE)
         ELSE Raise(query)

\* load_from_catalog(): bars is what catalog.bars(...) does, "ok" or the
\* exception it raises, which nothing catches
load_from_catalog(cat, bars) ==
    IF bars # "ok"
    THEN Raise(bars)
    ELSE IF cat = {}
         THEN Raise("ValueError")
         ELSE Return(DataFrame("catalog", SortedSeq(cat)))

\* a clear that leaves the bars where they are
_clear_catalog_KeepsBars(cat, outcome) == cat

\* _clear_catalog(): outcome lists what delete_data_range and, after its
\* failure, shutil.rmtree do; both failures are swallowed
_clear_catalog(cat, outcome) ==
    IF outcome[1] = "ok"
    THEN {}
    ELSE IF outcome[2] = "ok" THEN {} ELSE cat

ClearOutcomes == {<<"ok">>, <<"Exception", "ok">>, <<"Exception", "OSError">>}

\* the catalog calls of _catalog_exists and of load_from_catalog
ExistsOp(query) == [op |-> "bars(limit=1)", ok |-> query = "ok"]
LoadOp(bars) == [op |-> "bars", ok |-> bars = "ok"]

\* the catalog calls of _clear_catalog, with their success
ClearOps(outcome) ==
    [k \in 1..Len(outcome) |->
        [op |-> IF k = 1 THEN "delete_data_range" ELSE "rmtree",
         ok |-> outcome[k] = "ok"]]

\* save_to_catalog(df): write_data adds the bars or raises, and the
\* exception is raised again
save_to_catalog(cat, frame, write_data) ==
    IF write_data = "ok"
    THEN Return(cat \cup BarsOf(frame))
    ELSE Raise(write_data)

\* get_data(days, force_download) as one call: env holds what the catalog
\* calls do and whether ccxt can be imported.  _catalog_exists is not called
\* when force_download is set.
data_loader_get_data(days_, force, cat, state, now, env) ==
    IF ~force /\ _catalog_exists(cat, env.query).raised # "none"
    THEN [result |-> _catalog_exists(cat, env.query), catalog |-> cat,
          catalog_ops |-> <<ExistsOp(env.query)>>, np_random |-> state]
    ELSE IF force \/ ~_catalog_exists(cat, env.query).value
    THEN LET checked == IF force THEN <<>> ELSE <<ExistsOp(env.query)>>
             download == download_historical_data(days_, now, state, env.ccxt)
             cleared == _clear_catalog(cat, env.clear)
             saved_ == save_to_catalog(cleared, download.result.value, env.write_data)
         IN  IF download.result.raised # "none"
             THEN [result |-> download.result, catalog |-> cat,
                   catalog_ops |-> checked, np_random |-> download.np_random]
             ELSE [result |-> IF saved_.raised = "none" THEN download.result ELSE saved_,
                   catalog |-> IF saved_.raised = "none" THEN saved_.value ELSE cleared,
                   catalog_ops |-> checked \o ClearOps(env.clear)
                                      \o <<[op |-> "write_data", ok |-> saved_.raised = "none"]>>,
                   np_random |-> download.np_random]
    ELSE [result |-> load_from_catalog(cat, env.bars), catalog |-> cat,
          catalog_ops |-> <<ExistsOp(env.query), LoadOp(env.bars)>>, np_random |-> state]

\* get_data(days, force_download) up to the first fetch: the existence
\* check unless force_download is set, then either load_from_catalog or the
\* start of download_historical_data
get_data ==
    /\ loader_pc = "start"
    /\ \E query \in {"ok", "FileNotFoundError", "OSError"}, ccxt \in {"installed", "ImportError"}, bars \in {"ok", "FileNotFoundError"} :
         IF ~force_download /\ _catalog_exists(catalog, query).raised # "none"
         THEN /\ catalog_ops' = <<ExistsOp(query)>>
              /\ loader_result' = Some(_catalog_exists(catalog, query))
              /\ loader_pc' = "done"
              /\ UNCHANGED <<since, df, np_random>>
         ELSE IF force_download \/ ~_catalog_exists(catalog, query).value
         THEN /\ catalog_ops' = IF force_download THEN <<>> ELSE <<ExistsOp(query)>>
              /\ IF ccxt = "installed"
                 THEN /\ since' = exchange_ms - (days * 24 * 60 * 60 * 1000)
                      /\ df' = None
                      /\ loader_pc' = "fetching"
                      /\ loader_result' = None
                      /\ np_random' = np_random
                 ELSE LET synthetic == synthetic_fallback(days, exchange_ms, np_random, ccxt)
                      IN  /\ np_random' = synthetic.np_random
                          /\ since' = since
                          /\ IF synthetic.result.raised = "none"
                             THEN /\ df' = Some(synthetic.result.value)
                                  /\ loader_pc' = "downloaded"
                                  /\ loader_result' = None
                             ELSE /\ df' = None
                                  /\ loader_pc' = "done"
                                  /\ loader_result' = Some(synthetic.result)
         ELSE /\ catalog_ops' = <<ExistsOp(query), LoadOp(bars)>>
              /\ loader_result' = Some(load_from_catalog(catalog, bars))
              /\ loader_pc' = "done"
              /\ UNCHANGED <<since, df, np_random>>
    /\ all_ohlcv' = <<>>
    /\ UNCHANGED <<days, force_download, catalog, catalog_at_call, exchange_ms>>
    /\ UNCHANGED <<strategy_vars, grid_vars>>

\* one test of the while condition of download_historical_data and, if it
\* holds, one pass of the loop body; the exchange's clock may have advanced
FetchOhlcv ==
    /\ loader_pc = "fetching"
    /\ \E now \in {exchange_ms, exchange_ms + 1}, fetch \in {"ok", "NetworkError"} :
         /\ now <= MsPerDay - 1 + MaxClockTicks
         /\ exchange_ms' = now
         /\ IF ~(since < now)
            THEN /\ df' = Some(DataFrame("binance", all_ohlcv))
                 /\ loader_pc' = "downloaded"
                 /\ UNCHANGED <<since, all_ohlcv, loader_result, np_random>>
            ELSE IF fetch # "ok"
            THEN LET synthetic == synthetic_fallback(days, now, np_random, fetch)
                 IN  /\ np_random' = synthetic.np_random
                     /\ IF synthetic.result.raised = "none"
                        THEN /\ df' = Some(synthetic.result.value)
                             /\ loader_pc' = "downloaded"
                             /\ loader_result' = loader_result
                        ELSE /\ df' = df
                             /\ loader_pc' = "done"
                             /\ loader_result' = Some(synthetic.result)
                     /\ UNCHANGED <<since, all_ohlcv>>
            ELSE \E ohlcv \in FetchPages(now, since, 1000) :
                    IF Len(ohlcv) = 0
                    THEN /\ df' = Some(DataFrame("binance", all_ohlcv))
                         /\ loader_pc' = "downloaded"
                         /\ UNCHANGED <<since, all_ohlcv, loader_result, np_random>>
                    ELSE /\ all_ohlcv' = all_ohlcv \o ohlcv
                         /\ since' = next_since(ohlcv)
                         /\ UNCHANGED <<df, loader_pc, loader_result, np_random>>
    /\ UNCHANGED <<days, force_download, catalog, catalog_at_call, catalog_ops>>
    /\ UNCHANGED <<strategy_vars, grid_vars>>

\* get_data after the download: _clear_catalog()
ClearCatalog ==
    /\ loader_pc = "downloaded"
    /\ \E outcome \in ClearOutcomes :
         /\ catalog' = _clear_catalog(catalog, outcome)
         /\ catalog_ops' = catalog_ops \o ClearOps(outcome)
    /\ loader_pc' = "cleared"
    /\ UNCHANGED <<days, force_download, catalog_at_call, exchange_ms, since,
                   all_ohlcv, df, loader_result>>
    /\ UNCHANGED <<strategy_vars, optimizer_vars>>

\* get_data after the clear: save_to_catalog(df) and return df
SaveToCatalog ==
    /\ loader_pc = "cleared"
    /\ \E write_data \in {"ok", "OSError"} :
         LET r == save_to_catalog(catalog, df[1], write_data)
         IN  /\ catalog_ops' =
                    Append(catalog_ops, [op |-> "write_data", ok |-> r.raised = "none"])
             /\ catalog' = IF r.raised = "none" THEN r.value ELSE catalog
             /\ loader_result' = Some(IF r.raised = "none" THEN Return(df[1]) ELSE r)
    /\ loader_pc' = "done"
    /\ UNCHANGED <<days, force_download, catalog_at_call, exchange_ms, since,
                   all_ohlcv, df>>
    /\ UNCHANGED <<strategy_vars, optimizer_vars>>

\* bars a catalog may hold before the call
Catalogs == {{}, {0 - MsPerBar, 0}}

LoaderInit ==
    /\ StrategyIdle
    /\ OptimizerIdle
    /\ days \in {0, 1}
    /\ force_download \in BOOLEAN
    /\ catalog \in Catalogs
    /\ catalog_at_call = catalog
    /\ catalog_ops = <<>>
    /\ exchange_ms = MsPerDay - 1
    /\ since = 0
    /\ all_ohlcv = <<>>
    /\ df = None
    /\ loader_pc = "start"
    /\ loader_result = None

LoaderNext ==
    \/ get_data
    \/ FetchOhlcv
    \/ ClearCatalog
    \/ SaveToCatalog

\* the loader is a sequential program: it keeps taking its next step
SpecLoader == LoaderInit /\ [][LoaderNext]_vars /\ WF_vars(LoaderNext)

-----------------------------------------------------------------------------
(* RSIBacktester._extract_results (src/backtest.py)                        *)
(*                                                                         *)
(* A Python dict is a function on its keys: a key the code never set is    *)
(* not in the DOMAIN, a subscript of it raises KeyError, and the DataFrame *)
(* built from such rows holds NaN in that column.  The figures of a        *)
(* report are kept as exact rationals: the reports below hold values whose *)
(* sums, products and quotients here are exact in doubles as well.  The    *)
(* Sharpe ratio x = mean / std * sqrt(252) is irrational; it is kept as    *)
(* sign(x) * x^2, which is rational and orders exactly as x does.          *)

ParamKeys ==
    <<"rsi_period", "oversold_threshold", "overbought_threshold",
      "stop_loss_pct", "take_profit_pct", "position_size_pct">>

\* dict.get(key, default)
Get(d, key, default) == IF key \in DOMAIN d THEN d[key] ELSE default

\* rationals <<n, d>> in lowest terms with d > 0
Abs(n) == IF n < 0 THEN -n ELSE n

RECURSIVE Gcd(_, _)
Gcd(a, b) == IF b = 0 THEN a ELSE Gcd(b, a % b)

Rat(n, d) ==
    LET g == Gcd(Abs(n), Abs(d))
        s == IF d < 0 THEN -1 ELSE 1
    IN  <<(s * n) \div g, (s * d) \div g>>

RatOf(n) == <<n, 1>>
RatMul(a, b) == Rat(a[1] * b[1], a[2] * b[2])
RatDiv(a, b) == Rat(a[1] * b[2], a[2] * b[1])
RatAdd(a, b) == Rat(a[1] * b[2] + b[1] * a[2], a[2] * b[2])
RatSub(a, b) == Rat(a[1] * b[2] - b[1] * a[2], a[2] * b[2])
RatNeg(a) == <<-a[1], a[2]>>
RatLt(a, b) == a[1] * b[2] < b[1] * a[2]
RatZero == RatOf(0)

RECURSIVE SumSeq(_)
SumSeq(xs) == IF xs = <<>> THEN 0 ELSE Head(xs) + SumSeq(Tail(xs))

\* sign(x) * x^2 of a rational x
SignedSquare(x) == IF x[1] < 0 THEN RatNeg(RatMul(x, x)) ELSE RatMul(x, x)

np_mean(xs) == RatDiv(RatOf(SumSeq(xs)), RatOf(Len(xs)))

\* np.std(xs) ** 2, the population variance
np_var(xs) ==
    RatSub(RatDiv(RatOf(SumSeq([k \in 1..Len(xs) |-> xs[k] * xs[k]])), RatOf(Len(xs))),
         RatMul(np_mean(xs), np_mean(xs)))

\* np.mean(returns) / np.std(returns) * np.sqrt(252) if np.std(returns) > 0
\* else 0, as sign(x) * x^2
sharpe_ratio(returns) ==
    IF RatLt(RatZero, np_var(returns))
    THEN RatMul(RatOf(252), RatDiv(SignedSquare(np_mean(returns)), np_var(returns)))
    ELSE RatZero

\* a drawdown taken from the realized PnL of the positions: their losses in
\* percent of the starting balance
max_drawdown_pct_FromLosses(starting_balance, returns) ==
    IF RatLt(RatZero, starting_balance)
    THEN RatMul(RatDiv(RatOf(SumSeq([k \in 1..Len(returns) |->
                                        IF returns[k] < 0 THEN -returns[k] ELSE 0])),
                       starting_balance),
                RatOf(100))
    ELSE RatZero

\* the "Calculate max drawdown" block: peak is set and never used
max_drawdown_pct(starting_balance, returns) ==
    IF RatLt(RatZero, starting_balance)
    THEN RatZero
    ELSE RatZero

\* account_report: None or a dict; positions_report: None or the list of the
\* positions' realized_pnl
_extract_results(params, account_report, positions_report) ==
    LET r1 == IF account_report # None /\ DOMAIN account_report[1] # {}
              THEN [total_pnl |-> Get(account_report[1], "PNL_MTD", RatZero),
                    total_return_pct |->
                        RatMul(Get(account_report[1], "return_pct", RatZero), RatOf(100)),
                    starting_balance |->
                        Get(account_report[1], "starting_balance", RatZero),
                    ending_balance |->
                        Get(account_report[1], "ending_balance", RatZero)] @@ params
              ELSE params
    IN  IF positions_report = None \/ Len(positions_report[1]) = 0
        THEN Return(r1)
        ELSE LET pnl == positions_report[1]
                 winning == Cardinality({k \in 1..Len(pnl) : pnl[k] > 0})
                 losing == Cardinality({k \in 1..Len(pnl) : pnl[k] <= 0})
                 r2 == [total_trades |-> Len(pnl),
                        winning_trades |-> winning,
                        losing_trades |-> losing,
                        win_rate |-> RatMul(RatDiv(RatOf(winning), RatOf(Len(pnl))),
                                          RatOf(100))] @@ r1
                 r3 == IF Len(pnl) > 1
                       THEN [sharpe_ratio |-> sharpe_ratio(pnl)] @@ r2
                       ELSE r2
             IN  IF "starting_balance" \notin DOMAIN r3
                 THEN Raise("KeyError")
                 ELSE Return([max_drawdown_pct |->
                                  max_drawdown_pct(r3.starting_balance, pnl)] @@ r3)

\* what one engine run leaves behind: an exception, or the two reports
AccountReport ==
    [PNL_MTD |-> RatOf(50), return_pct |-> <<1, 200>>,
     starting_balance |-> RatOf(10000), ending_balance |-> RatOf(10050)]

EngineRun(raised_, account_report, positions_report) ==
    [raised |-> raised_, account_report |-> account_report,
     positions_report |-> positions_report]

EngineRuns ==
    { EngineRun("ValueError", None, None),
      EngineRun("none", None, None),
      EngineRun("none", Some(AccountReport), Some(<<10>>)),
      EngineRun("none", Some(AccountReport), Some(<<10, 30>>)),
      EngineRun("none", Some(AccountReport), Some(<<-30, 10>>)),
      EngineRun("none", Some([PNL_MTD |-> RatOf(0)]), Some(<<-30, 10>>)) }

\* run_backtest(**params, days): data_loader.get_data(days, False), then
\* the engine run, then _extract_results; an exception of get_data leaves
\* the method before the engine is built
run_backtest(params, days_, cat, state, now, env, engine) ==
    LET data == data_loader_get_data(days_, FALSE, cat, state, now, env)
    IN  [data EXCEPT !.result =
            IF data.result.raised # "none"
            THEN data.result
            ELSE IF engine.raised # "none"
                 THEN Raise(engine.raised)
                 ELSE _extract_results(params, engine.account_report,
                                       engine.positions_report)]

-----------------------------------------------------------------------------
(* RSIOptimizer (src/optimizer.py)                                         *)

\* define_search_space, cut to the first `width` values of the two threshold
\* ranges (of 21 each) and to the first value of every other list
define_search_space(width) ==
    [rsi_period |-> <<14>>,
     oversold_threshold |-> [k \in 1..width |-> 19 + k],
     overbought_threshold |-> [k \in 1..width |-> 59 + k],
     stop_loss_pct |-> <<Rat(2 * 25, 100)>>,
     take_profit_pct |-> <<Rat(2 * 5, 10)>>,
     position_size_pct |-> <<Rat(1 * 5, 10)>>]

SearchWidths == {1, 3}

\* number of tuples itertools.product yields for the keys after the k-th
RECURSIVE Stride(_, _)
Stride(space, k) ==
    IF k = Len(ParamKeys)
    THEN 1
    ELSE Len(space[ParamKeys[k + 1]]) * Stride(space, k + 1)

\* [dict(zip(keys, combo)) for combo in product(*values)]: the last key
\* varies fastest
all_combinations(space) ==
    LET total == Len(space[ParamKeys[1]]) * Stride(space, 1)
    IN  [idx \in 1..total |->
            [key \in {ParamKeys[k] : k \in 1..Len(ParamKeys)} |->
                LET k == CHOOSE k \in 1..Len(ParamKeys) : ParamKeys[k] = key
                IN  space[key][(((idx - 1) \div Stride(space, k))
                                   % Len(space[key])) + 1]]]

\* generate_parameter_combinations(): the list returned and the generator
\* state it leaves
generate_parameter_combinations(space, max, state) ==
    LET all == all_combinations(space)
    IN  IF Len(all) > max
        THEN LET indices == np_random_choice(np_random_seed(state, 42),
                                             Len(all), max)
             IN  [value |-> [k \in 1..max |-> all[indices.value[k] + 1]],
                  np_random |-> indices.np_random]
        ELSE [value |-> all, np_random |-> state]

\* the row of a failed backtest without the zeroed metrics
failed_result_OnlyError(params, e) == [error |-> e] @@ params

\* the except branch of the loop: params.copy() with the error text and
\* three zeroed metrics
failed_result(params, e) ==
    [error |-> e, total_pnl |-> RatZero, total_return_pct |-> RatZero,
     sharpe_ratio |-> RatZero] @@ params

\* pandas: a column exists if some row has the key; a row without it holds NaN
HasColumn(rows, col) == \E k \in 1..Len(rows) : col \in DOMAIN rows[k]
IsNaN(row, col) == col \notin DOMAIN row

\* df.sort_values(col, ascending=False): descending, NaN last, rows of equal
\* key in their original order
Precedes(rows, col, j, k) ==
    IF IsNaN(rows[j], col)
    THEN IsNaN(rows[k], col) /\ j < k
    ELSE \/ IsNaN(rows[k], col)
         \/ RatLt(rows[k][col], rows[j][col])
         \/ rows[k][col] = rows[j][col] /\ j < k

sort_values(rows, col) ==
    [p \in 1..Len(rows) |->
        rows[CHOOSE k \in 1..Len(rows) :
                Cardinality({j \in 1..Len(rows) : Precedes(rows, col, j, k)}) = p - 1]]

\* df[df[col] >= bound] and df[df[col] <= bound]: a NaN compares False
AtLeast(rows, col, bound) ==
    SelectSeq(rows, LAMBDA r : ~IsNaN(r, col) /\ ~RatLt(r[col], bound))
AtMost(rows, col, bound) ==
    SelectSeq(rows, LAMBDA r : ~IsNaN(r, col) /\ ~RatLt(bound, r[col]))

\* _apply_filters(df, filters); sharpe_min is compared as sign(x) * x^2
_apply_filters(rows, fs) ==
    LET missing(col, key) == key \in DOMAIN fs /\ ~HasColumn(rows, col)
        f1 == IF "sharpe_min" \in DOMAIN fs
              THEN AtLeast(rows, "sharpe_ratio", SignedSquare(fs["sharpe_min"]))
              ELSE rows
        f2 == IF "win_rate_min" \in DOMAIN fs
              THEN AtLeast(f1, "win_rate", fs["win_rate_min"])
              ELSE f1
        f3 == IF "max_drawdown_max" \in DOMAIN fs
              THEN AtMost(f2, "max_drawdown_pct", fs["max_drawdown_max"])
              ELSE f2
    IN  IF \/ missing("sharpe_ratio", "sharpe_min")
           \/ missing("win_rate", "win_rate_min")
           \/ missing("max_drawdown_pct", "max_drawdown_max")
        THEN Raise("KeyError")
        ELSE Return(f3)

FilterSets ==
    { <<>>, [sharpe_min |-> RatOf(0)], [win_rate_min |-> RatOf(50)] }

\* _save_results(df, filename): to_csv writes the file or raises
_save_results(files, rows, filename, to_csv) ==
    IF to_csv = "ok"
    THEN Return((filename :> rows) @@ files)
    ELSE Raise(to_csv)

ToCsvOutcomes == {<<"ok", "ok">>, <<"OSError", "ok">>, <<"ok", "OSError">>}

\* a direct call of generate_parameter_combinations
GenerateParameterCombinations ==
    /\ grid_pc = "idle"
    /\ generate_calls < MaxGenerateCalls
    /\ LET g == generate_parameter_combinations(search_space, max_combinations,
                                                np_random)
       IN  /\ generated' = Some(g.value)
           /\ np_random' = g.np_random
    /\ generate_calls' = generate_calls + 1
    /\ UNCHANGED <<search_space, max_combinations, filters, combinations, grid_i,
                   backtest_calls, results, saved, grid_pc, grid_result>>
    /\ UNCHANGED <<strategy_vars, loader_vars>>

\* run_grid_search up to the loop
run_grid_search ==
    /\ grid_pc = "idle"
    /\ LET g == generate_parameter_combinations(search_space, max_combinations,
                                                np_random)
       IN  /\ generated' = Some(g.value)
           /\ combinations' = g.value
           /\ np_random' = g.np_random
    /\ generate_calls' = generate_calls + 1
    /\ results' = <<>>
    /\ grid_i' = 0
    /\ grid_pc' = "loop"
    /\ UNCHANGED <<search_space, max_combinations, filters, backtest_calls,
                   saved, grid_result>>
    /\ UNCHANGED <<strategy_vars, loader_vars>>

\* what the catalog and the import of ccxt do during one backtest
BacktestEnv(ccxt, write_data, bars) ==
    [query |-> "ok", ccxt |-> ccxt, clear |-> <<"ok">>, write_data |-> write_data,
     bars |-> bars]

BacktestEnvs ==
    { BacktestEnv("installed", "ok", "ok"),
      BacktestEnv("ImportError", "ok", "ok"),
      BacktestEnv("ImportError", "OSError", "ok"),
      BacktestEnv("installed", "ok", "FileNotFoundError") }

\* one iteration of the loop over the combinations
GridSearchIteration ==
    /\ grid_pc = "loop"
    /\ grid_i < Len(combinations)
    /\ \E engine \in EngineRuns, env \in BacktestEnvs :
         LET params == combinations[grid_i + 1]
             r == run_backtest(params, days, catalog, np_random, exchange_ms, env, engine)
         IN  /\ backtest_calls' = Append(backtest_calls, params)
             /\ results' = Append(results,
                                  IF r.result.raised = "none"
                                  THEN r.result.value
                                  ELSE failed_result(params, r.result.raised))
             /\ catalog' = r.catalog
             /\ catalog_ops' = r.catalog_ops
             /\ np_random' = r.np_random
    /\ grid_i' = grid_i + 1
    /\ UNCHANGED <<search_space, max_combinations, generated, generate_calls,
                   filters, combinations, saved, grid_pc, grid_result>>
    /\ UNCHANGED <<strategy_vars, call_vars>>

\* run_grid_search after the loop: DataFrame, sort, save, filter, return
GridSearchFinish ==
    /\ grid_pc = "loop"
    /\ grid_i = Len(combinations)
    /\ \E to_csv \in ToCsvOutcomes :
         IF ~HasColumn(results, "sharpe_ratio")
         THEN /\ grid_result' = Some(Raise("KeyError"))
              /\ saved' = saved
         ELSE LET results_df == sort_values(results, "sharpe_ratio")
                  s1 == _save_results(saved, results_df, "all_results.csv",
                                      to_csv[1])
              IN  IF s1.raised # "none"
                  THEN /\ grid_result' = Some(Raise(s1.raised))
                       /\ saved' = saved
                  ELSE IF filters = <<>>
                  THEN /\ grid_result' = Some(Return(results_df))
                       /\ saved' = s1.value
                  ELSE LET filtered_df == _apply_filters(results_df, filters)
                           s2 == _save_results(s1.value, filtered_df.value,
                                               "filtered_results.csv", to_csv[2])
                       IN  IF filtered_df.raised # "none"
                           THEN /\ grid_result' = Some(filtered_df)
                                /\ saved' = s1.value
                           ELSE IF s2.raised # "none"
                           THEN /\ grid_result' = Some(Raise(s2.raised))
                                /\ saved' = s1.value
                           ELSE /\ grid_result' = Some(filtered_df)
                                /\ saved' = s2.value
    /\ grid_pc' = "done"
    /\ UNCHANGED <<search_space, max_combinations, np_random, generated,
                   generate_calls, filters, combinations, grid_i,
                   backtest_calls, results>>
    /\ UNCHANGED <<strategy_vars, loader_vars>>

\* the loader of the backtester before the first backtest: the catalog the
\* optimizer was pointed at, and the days handed to run_grid_search
BacktesterLoader ==
    /\ days \in {0, 1}
    /\ force_download = FALSE
    /\ catalog \in Catalogs
    /\ catalog_at_call = catalog
    /\ catalog_ops = <<>>
    /\ exchange_ms = MsPerDay - 1
    /\ since = 0
    /\ all_ohlcv = <<>>
    /\ df = None
    /\ loader_pc = "idle"
    /\ loader_result = None

\* a run that ends with the import of the module: no optimizer is constructed
OptimizerNotImported(e) ==
    /\ search_space = <<>>
    /\ max_combinations = 0
    /\ filters = <<>>
    /\ np_random = None
    /\ generated = None
    /\ generate_calls = 0
    /\ combinations = <<>>
    /\ grid_i = 0
    /\ backtest_calls = <<>>
    /\ results = <<>>
    /\ saved = <<>>
    /\ grid_pc = "not imported"
    /\ grid_result = Some(Raise(e))

OptimizerStarted ==
    /\ search_space \in {define_search_space(w) : w \in SearchWidths}
    /\ max_combinations \in 0..MaxCombinations
    /\ filters \in FilterSets
    /\ np_random = None
    /\ generated = None
    /\ generate_calls = 0
    /\ combinations = <<>>
    /\ grid_i = 0
    /\ backtest_calls = <<>>
    /\ results = <<>>
    /\ saved = <<>>
    /\ grid_pc = "idle"
    /\ grid_result = None

OptimizerInit ==
    /\ StrategyIdle
    /\ \E builtins \in Builtins :
         IF import_optimizer(builtins) = "none"
         THEN BacktesterLoader /\ OptimizerStarted
         ELSE LoaderIdle /\ OptimizerNotImported(import_optimizer(builtins))

OptimizerNext ==
    \/ GenerateParameterCombinations
    \/ run_grid_search
    \/ GridSearchIteration
    \/ GridSearchFinish

SpecOptimizer == OptimizerInit /\ [][OptimizerNext]_vars

-----------------------------------------------------------------------------
(* Properties *)

EntryTags == {"RSI_LONG_ENTRY", "RSI_SHORT_ENTRY"}
ProtectiveTags == {"STOP_LOSS", "TAKE_PROFIT"}
Tagged(book, tags) == {i \in 1..Len(book) : book[i].tags \in tags}
OpenTagged(book, tags) == {i \in Tagged(book, tags) : book[i].status = "open"}

\* the crossover of the bar of the last on_bar call, whether or not the
\* strategy looked at it
CrossoverOfLastBar ==
    IF last.op = "on_bar" /\ last.previous # None /\ last.current # None
    THEN Signal(last.previous[1], last.current[1],
                config.oversold_threshold, config.overbought_threshold)
    ELSE "NONE"

\* C1: while a position is tracked (current_position is set), no on_bar call
\* submits an order, whatever crossover the bar produces.
C1_NoEntryWhilePositionTracked ==
    [][(last'.op = "on_bar" /\ current_position # None) => orders' = orders]_vars

\* C1 witness: a bar with a crossover was processed while a position was tracked.
C1_Witness ==
    /\ last.op = "on_bar"
    /\ current_position # None
    /\ rsi.initialized
    /\ CrossoverOfLastBar \in {"LONG_ENTRY", "SHORT_ENTRY"}

\* C2: at most one entry order is outstanding (submitted and not yet filled or
\* rejected) at any time.
C2_OneEntryOutstanding ==
    Cardinality(OpenTagged(orders, EntryTags)) <= 1

\* C3: every on_position_opened call submits exactly one stop-loss and one
\* take-profit order in that step, both on the side that closes the position,
\* and no other step submits a protective order.
C3_ProtectivePairOnOpen ==
    [][LET n == Len(orders)
           closing == IF current_position'[1].side = "LONG" THEN "SELL" ELSE "BUY"
       IN  /\ last'.op = "on_position_opened" =>
                /\ Len(orders') = n + 2
                /\ orders'[n + 1].tags = "STOP_LOSS"
                /\ orders'[n + 1].kind = "STOP_MARKET"
                /\ orders'[n + 1].order_side = closing
                /\ orders'[n + 1].status = "open"
                /\ orders'[n + 2].tags = "TAKE_PROFIT"
                /\ orders'[n + 2].kind = "LIMIT"
                /\ orders'[n + 2].order_side = closing
                /\ orders'[n + 2].status = "open"
           /\ Tagged(orders', ProtectiveTags) # Tagged(orders, ProtectiveTags) =>
                last'.op = "on_position_opened"]_vars

\* C3 witness: a SHORT position was just opened and its two BUY protective
\* orders are on the book.
C3_Witness ==
    /\ last.op = "on_position_opened"
    /\ current_position # None
    /\ current_position[1].side = "SHORT"
    /\ orders[Len(orders) - 1].tags = "STOP_LOSS"
    /\ orders[Len(orders) - 1].order_side = "BUY"
    /\ orders[Len(orders)].tags = "TAKE_PROFIT"
    /\ orders[Len(orders)].order_side = "BUY"

\* the levels C4 names for a position opened at avg_px_open, as the Decimals
\* the orders carry
ClaimedLevelsAt(stop_loss_pct, take_profit_pct, avg_px_open) ==
    LET entry == Float(avg_px_open)
        sl_fraction == FDiv(stop_loss_pct, Hundred)
        tp_fraction == FDiv(take_profit_pct, Hundred)
    IN  [LONG |-> [sl |-> DecimalOfStr(FMul(entry, FSub(One, sl_fraction))),
                   tp |-> DecimalOfStr(FMul(entry, FAdd(One, tp_fraction)))],
         SHORT |-> [sl |-> DecimalOfStr(FMul(entry, FAdd(One, sl_fraction))),
                    tp |-> DecimalOfStr(FMul(entry, FSub(One, tp_fraction)))]]

\* the prices at which a position of a run may open
OpeningPrices ==
    UNION {{x[2] : x \in DOMAIN ProtectiveLevels[c]} : c \in Configs}

ClaimedLevels ==
    Table([c \in Configs, avg_px_open \in OpeningPrices |->
              ClaimedLevelsAt(c.stop_loss_pct, c.take_profit_pct, avg_px_open)])

\* C4: the protective prices are entry*(1 -/+ stop_loss_pct/100) and
\* entry*(1 +/- take_profit_pct/100) for LONG/SHORT; a LONG entry at 2000 with
\* stop_loss_pct = 1.5 and take_profit_pct = 3.0 gives 1970 and 2060.
C4_ProtectivePrices ==
    last.op = "on_position_opened" =>
        LET position == current_position[1]
            claimed == ClaimedLevels[config, position.avg_px_open][position.side]
            sl == orders[Len(orders) - 1].price[1]
            tp == orders[Len(orders)].price[1]
        IN  /\ sl = claimed.sl
            /\ tp = claimed.tp
            /\ ( /\ position.side = "LONG"
                 /\ position.avg_px_open = Dec(2000, 0)
                 /\ config.stop_loss_pct = DefaultStopLossPct
                 /\ config.take_profit_pct = DefaultTakeProfitPct ) =>
                    sl = Dec(1970, 0) /\ tp = Dec(2060, 0)

\* C4 witness: a LONG entry filled at 2000 under stop_loss_pct = 1.5 and
\* take_profit_pct = 3.0, with the stop at 1970 and the limit at 2060.
C4_Witness ==
    /\ last.op = "on_position_opened"
    /\ current_position # None
    /\ current_position[1].side = "LONG"
    /\ current_position[1].avg_px_open = Dec(2000, 0)
    /\ config.stop_loss_pct = DefaultStopLossPct
    /\ orders[Len(orders) - 1].price = Some(Dec(1970, 0))
    /\ orders[Len(orders)].price = Some(Dec(2060, 0))

\* C5: once a close event has been handled, no protective order is left open
\* (the sibling of the one that filled has been cancelled).
C5_SiblingCancelledOnClose ==
    last.op = "on_position_closed" => OpenTagged(orders, ProtectiveTags) = {}

\* C6: an evaluated bar yields LONG_ENTRY iff previous_rsi < oversold and
\* current_rsi >= oversold, SHORT_ENTRY iff previous_rsi > overbought and
\* current_rsi <= overbought and the LONG condition fails, and NONE otherwise.
C6_SignalRule ==
    (last.op = "on_bar" /\ last.signal # "NOT_EVALUATED") =>
        LET p == last.previous[1]
            c == last.current[1]
            long == p < config.oversold_threshold /\ c >= config.oversold_threshold
            short == p > config.overbought_threshold /\ c <= config.overbought_threshold
        IN  /\ last.signal = "LONG_ENTRY" <=> long
            /\ last.signal = "SHORT_ENTRY" <=> (short /\ ~long)
            /\ last.signal = "NONE" <=> (~long /\ ~short)

\* C6 witness: a bar whose previous RSI sat exactly on the overbought threshold
\* was evaluated (no SHORT_ENTRY: the comparison is strict).
C6_Witness ==
    /\ last.op = "on_bar"
    /\ last.signal = "NONE"
    /\ last.previous = Some(config.overbought_threshold)
    /\ last.current # None
    /\ last.current[1] < config.overbought_threshold

\* C7: the first bar on which the RSI is initialized is a baseline tick: no
\* order is submitted on it.
C7_FirstInitializedBarIsBaseline ==
    (last.op = "on_bar" /\ rsi.count = config.rsi_period) => last.submitted = 0

\* C8: no exception propagates out of on_bar.
C8_NoExceptionEscapesOnBar ==
    last.op = "on_bar" => raised = "none"

\* C9: a crossover in FLAT for which no account or no reference price is
\* obtainable submits no order, raises nothing and leaves the position state
\* unchanged (FLAT).
C9_NoPriceNoOrder ==
    [][( /\ last'.op = "on_bar"
         /\ last'.signal \in {"LONG_ENTRY", "SHORT_ENTRY"}
         /\ (~last'.portfolio.account \/ last'.portfolio.last_price = None) ) =>
            /\ orders' = orders
            /\ raised' = "none"
            /\ current_position' = None
            /\ UNCHANGED <<current_position, position_entry_price,
                           sl_order_id, tp_order_id, net_position>>]_vars

\* C9 witness: after a crossover was dropped for want of a price or an account,
\* a later bar's crossover submitted an entry order.
C9_Witness ==
    /\ signals_skipped > 0
    /\ last.op = "on_bar"
    /\ last.submitted = 1
    /\ orders[Len(orders)].tags \in EntryTags

\* the quantity C10 names, as the Decimal the order carries
ClaimedQuantityAt(position_size_pct, free_equity, reference_price) ==
    DecimalOfStr(FDiv(FMul(free_equity, FDiv(position_size_pct, Hundred)),
                      reference_price))

ClaimedQuantity ==
    Table([position_size_pct \in {c.position_size_pct : c \in Configs},
           portfolio \in {p \in Portfolios : p.last_price \notin {None, Some(DZero)}} |->
              ClaimedQuantityAt(position_size_pct, Float(portfolio.balance_free),
                                Float(portfolio.last_price[1]))])

\* C10: the quantity of a submitted entry order is
\* (free_equity * position_size_pct / 100) / reference_price, unrounded;
\* free_equity = 10000, position_size_pct = 2, reference_price = 2000 give 0.1.
C10_EntryQuantity ==
    (last.op = "on_bar" /\ last.submitted = 1) =>
        LET quantity == orders[Len(orders)].quantity
        IN  /\ quantity = ClaimedQuantity[config.position_size_pct, last.portfolio]
            /\ ( /\ last.portfolio.balance_free = Dec(10000, 0)
                 /\ config.position_size_pct = DefaultPositionSizePct
                 /\ last.portfolio.last_price = Some(Dec(2000, 0)) ) =>
                    quantity = Dec(1, -1)

\* C10 witness: the entry order of the example was submitted with quantity 0.1.
C10_Witness ==
    /\ last.op = "on_bar"
    /\ last.submitted = 1
    /\ last.portfolio.balance_free = Dec(10000, 0)
    /\ last.portfolio.last_price = Some(Dec(2000, 0))
    /\ config.position_size_pct = DefaultPositionSizePct
    /\ orders[Len(orders)].quantity = Dec(1, -1)

\* C11: sizing returns no quantity when the reference price or the free
\* equity is <= 0, so every submitted entry order has a quantity > 0.
C11_EntryQuantityPositive ==
    \A i \in Tagged(orders, EntryTags) : DLt(DZero, orders[i].quantity)

\* the entry orders that the step takes from open to rejected or cancelled
EntriesRefused ==
    {i \in OpenTagged(orders, EntryTags) :
        i <= Len(orders') /\ orders'[i].status \in {"rejected", "cancelled"}}

\* C12: when an entry order is rejected or cancelled the controller is FLAT
\* afterwards (it tracks no position), no Position is created and nothing is
\* resubmitted; an entry order is only ever submitted by an on_bar call that
\* detected a crossover.
C12_RefusedEntryReturnsToFlat ==
    [][/\ ( /\ last'.op \in {"on_order_rejected", "on_order_canceled"}
            /\ EntriesRefused # {} ) =>
               /\ current_position' = None
               /\ Len(orders') = Len(orders)
               /\ raised' = "none"
       /\ Tagged(orders', EntryTags) # Tagged(orders, EntryTags) =>
            /\ last'.op = "on_bar"
            /\ last'.signal \in {"LONG_ENTRY", "SHORT_ENTRY"}]_vars

\* C13: a close event for the tracked position clears current_position,
\* position_entry_price, sl_order_id and tp_order_id.
C13_CloseClearsTracking ==
    last.op = "on_position_closed" =>
        /\ current_position = None
        /\ position_entry_price = None
        /\ sl_order_id = None
        /\ tp_order_id = None

\* C13 witness: a position was opened and closed by a protective fill, and a
\* crossover on a later bar has submitted a new entry order.
C13_Witness ==
    /\ last.op = "on_bar"
    /\ last.submitted = 1
    /\ current_position = None
    /\ net_position = DZero
    /\ orders[Len(orders)].tags \in EntryTags
    /\ \E i \in Tagged(orders, ProtectiveTags) : orders[i].status = "filled"

\* C14: a close event delivered while no position is tracked raises nothing,
\* submits and cancels no order and leaves the controller state unchanged.
C14_CloseWhileFlatIsNoOp ==
    [][( /\ last'.op \in {"on_position_closed", "on_position_closed_stale"}
         /\ current_position = None ) =>
            /\ raised' = "none"
            /\ UNCHANGED <<current_position, position_entry_price, sl_order_id,
                           tp_order_id, previous_rsi, rsi, orders,
                           net_position>>]_vars

\* C14 witness: a close event was handled in FLAT while a protective order of
\* an earlier position was still on the book.
C14_Witness ==
    /\ last.op = "on_position_closed_stale"
    /\ current_position = None
    /\ previous_rsi # None
    /\ OpenTagged(orders, ProtectiveTags) # {}

\* C15: a cancellation acknowledgement for a protective order that is
\* already cancelled or filled raises nothing and changes no state, in any
\* controller state and however often it is delivered.
C15_DuplicateCancelAckIsNoOp ==
    [][last'.op = "on_order_canceled_again" =>
            /\ raised' = "none"
            /\ UNCHANGED <<current_position, position_entry_price, sl_order_id,
                           tp_order_id, previous_rsi, rsi, orders,
                           net_position>>]_vars

\* C15 witness: the acknowledgement was delivered again for a cancelled
\* protective order while a position was open.
C15_Witness ==
    /\ last.op = "on_order_canceled_again"
    /\ current_position # None
    /\ \E i \in Tagged(orders, ProtectiveTags) : orders[i].status = "cancelled"

\* C16: a signal that is acted on submits exactly one market order, BUY tagged
\* RSI_LONG_ENTRY for LONG_ENTRY and SELL tagged RSI_SHORT_ENTRY for
\* SHORT_ENTRY; on_bar submits nothing without a signal.
C16_EntrySideMatchesSignal ==
    last.op = "on_bar" =>
        /\ last.submitted <= 1
        /\ last.submitted = 1 =>
             LET o == orders[Len(orders)]
             IN  /\ o.kind = "MARKET"
                 /\ last.signal \in {"LONG_ENTRY", "SHORT_ENTRY"}
                 /\ last.signal = "LONG_ENTRY" =>
                        (o.order_side = "BUY" /\ o.tags = "RSI_LONG_ENTRY")
                 /\ last.signal = "SHORT_ENTRY" =>
                        (o.order_side = "SELL" /\ o.tags = "RSI_SHORT_ENTRY")

\* C16 witness: a SHORT_ENTRY was acted on with a SELL market order.
C16_Witness ==
    /\ last.op = "on_bar"
    /\ last.signal = "SHORT_ENTRY"
    /\ last.submitted = 1
    /\ orders[Len(orders)].order_side = "SELL"
    /\ orders[Len(orders)].tags = "RSI_SHORT_ENTRY"

\* C17: a position is created only by the fill of an entry market order the
\* strategy submitted on a signal, with the side of that order (LONG for BUY,
\* SHORT for SELL); no other fill creates a position.
C17_PositionOnlyFromEntryFill ==
    [][last'.op = "on_position_opened" =>
          \E i \in 1..Len(orders) :
             /\ orders[i].status = "open"
             /\ orders'[i].status = "filled"
             /\ orders[i].kind = "MARKET"
             /\ orders[i].tags \in EntryTags
             /\ current_position'[1].side =
                    (IF orders[i].order_side = "BUY" THEN "LONG" ELSE "SHORT")]_vars

\* C18: no strategy runs with a configuration outside
\* 0 < oversold_threshold < overbought_threshold < 100, stop_loss_pct > 0,
\* take_profit_pct > 0, 0 < position_size_pct <= 100.
C18_NoInvalidConfigRuns ==
    last.op = "on_bar" =>
        /\ 0 < config.oversold_threshold
        /\ config.oversold_threshold < config.overbought_threshold
        /\ config.overbought_threshold < 100
        /\ FLt(FZero, config.stop_loss_pct)
        /\ FLt(FZero, config.take_profit_pct)
        /\ FLt(FZero, config.position_size_pct)
        /\ ~FLt(Hundred, config.position_size_pct)

\* C19: while fewer than rsi_period bars have been consumed the RSI is not
\* initialized and no order has been submitted.
C19_NoOrderBeforeInitialized ==
    (raised # "NameError" /\ rsi.count < config.rsi_period) =>
        /\ ~rsi.initialized
        /\ orders = <<>>
        /\ last.submitted = 0

\* C19 witness: a bar before the rsi_period-th one carried a crossover of the
\* values the indicator showed.
C19_Witness ==
    /\ last.op = "on_bar"
    /\ rsi.count = 2
    /\ config.rsi_period = 3
    /\ CrossoverOfLastBar \in {"LONG_ENTRY", "SHORT_ENTRY"}
    /\ orders = <<>>

\* C20: sl_order_id and tp_order_id are both set exactly while
\* current_position is set.
C20_ProtectiveHandlesWhileOpen ==
    (current_position # None) <=> (sl_order_id # None /\ tp_order_id # None)

\* the parameter part of a result row
ParamsOf(row) == [key \in {ParamKeys[k] : k \in 1..Len(ParamKeys)} |-> row[key]]

\* C21: the grid search calls run_backtest once per combination, in order,
\* and records one row per combination in that order; the row of a backtest
\* that raised holds the parameters, the error text and zero total_pnl,
\* total_return_pct and sharpe_ratio, and the loop ends only after the last
\* combination.
C21_OneRowPerCombination ==
    grid_pc \in {"loop", "done"} =>
        /\ grid_i <= Len(combinations)
        /\ Len(results) = grid_i
        /\ backtest_calls = SubSeq(combinations, 1, grid_i)
        /\ grid_pc = "done" => grid_i = Len(combinations)
        /\ \A k \in 1..grid_i :
             /\ ParamsOf(results[k]) = combinations[k]
             /\ IF "error" \in DOMAIN results[k]
                THEN /\ DOMAIN results[k] =
                            DOMAIN combinations[k]
                                \cup {"error", "total_pnl", "total_return_pct",
                                      "sharpe_ratio"}
                     /\ results[k].total_pnl = RatZero
                     /\ results[k].total_return_pct = RatZero
                     /\ results[k].sharpe_ratio = RatZero
                ELSE \E engine \in EngineRuns :
                        /\ engine.raised = "none"
                        /\ _extract_results(combinations[k], engine.account_report,
                                            engine.positions_report) = Return(results[k])

\* C21 witness: the sweep is over, the first backtest raised and the second
\* one returned a result.
C21_Witness ==
    /\ grid_pc = "done"
    /\ Len(results) >= 2
    /\ "error" \in DOMAIN results[1]
    /\ "error" \notin DOMAIN results[2]
    /\ "win_rate" \in DOMAIN results[2]

\* rows ranked by sharpe_ratio: of two rows the earlier one has a
\* sharpe_ratio >= the later one's (a comparison with NaN is false)
Ranked(rows) ==
    \A j, k \in 1..Len(rows) :
        j < k => /\ ~IsNaN(rows[j], "sharpe_ratio")
                 /\ ~IsNaN(rows[k], "sharpe_ratio")
                 /\ ~RatLt(rows[j].sharpe_ratio, rows[k].sharpe_ratio)

\* C22: whatever the backtests produced, run_grid_search does not fail on
\* the ranking, and what it returns and what it saves is ranked by
\* sharpe_ratio in descending order.
C22_RankedBySharpe ==
    (grid_pc = "done" /\ results # <<>>) =>
        /\ grid_result[1].raised # "KeyError"
        /\ grid_result[1].raised = "none" => Ranked(grid_result[1].value)
        /\ \A f \in DOMAIN saved : Ranked(saved[f])

\* the size of the cartesian product of a search space
ProductSize(space) ==
    Len(space.rsi_period) * Len(space.oversold_threshold)
        * Len(space.overbought_threshold) * Len(space.stop_loss_pct)
        * Len(space.take_profit_pct) * Len(space.position_size_pct)

\* C23: every call of generate_parameter_combinations returns at most
\* max_combinations tuples, each a member of the cartesian product of the
\* search space and none twice, exactly max_combinations of them when the
\* product is larger, and the same list as the call before it.
C23_GeneratedCombinations ==
    [][generate_calls' = generate_calls + 1 =>
         LET g == generated'[1]
         IN  /\ Len(g) <= max_combinations
             /\ \A k \in 1..Len(g) :
                  /\ DOMAIN g[k] = DOMAIN search_space
                  /\ \A key \in DOMAIN search_space :
                       \E m \in 1..Len(search_space[key]) :
                          g[k][key] = search_space[key][m]
             /\ \A j, k \in 1..Len(g) : j # k => g[j] # g[k]
             /\ ProductSize(search_space) > max_combinations =>
                    Len(g) = max_combinations
             /\ generated # None => generated' = generated]_vars

\* C23 witness: a second call has sampled two of nine combinations.
C23_Witness ==
    /\ generate_calls = 2
    /\ ProductSize(search_space) = 9
    /\ max_combinations = 2
    /\ Len(generated[1]) = 2

\* whether one of the logged catalog calls named in ops succeeded
Succeeded(ops) ==
    \E k \in 1..Len(catalog_ops) : catalog_ops[k].op \in ops /\ catalog_ops[k].ok

Called(ops) == \E k \in 1..Len(catalog_ops) : catalog_ops[k].op \in ops

\* C24 as stated, for the calls that return: when force_download is set or
\* the catalog showed no bars, get_data has downloaded, cleared and saved, it
\* returns the downloaded frame and the catalog holds exactly the downloaded
\* bars; otherwise it returns the bars loaded from the catalog and has
\* written nothing.
C24_ClearThenSaveExact ==
    (loader_pc = "done" /\ loader_result[1].raised = "none") =>
        IF force_download \/ catalog_at_call = {} \/ ~catalog_ops[1].ok
        THEN /\ df # None
             /\ \E j, k \in 1..Len(catalog_ops) :
                  /\ j < k
                  /\ catalog_ops[j].op \in {"delete_data_range", "rmtree"}
                  /\ catalog_ops[k].op = "write_data"
             /\ catalog = BarsOf(df[1])
             /\ loader_result = Some(Return(df[1]))
        ELSE /\ loader_result =
                    Some(Return(DataFrame("catalog", SortedSeq(catalog_at_call))))
             /\ catalog = catalog_at_call
             /\ ~Called({"delete_data_range", "rmtree", "write_data"})

\* the catalog calls get_data made after the existence check
AfterCheck == IF force_download THEN catalog_ops ELSE Tail(catalog_ops)

\* whether get_data ended in _catalog_exists, with an exception of the query
\* that the method does not catch
ExistenceCheckRaised ==
    /\ ~force_download
    /\ catalog_ops = <<[op |-> "bars(limit=1)", ok |-> FALSE]>>
    /\ loader_result = Some(Raise("OSError"))

\* C24 amended: get_data asks _catalog_exists unless force_download is set,
\* and an exception of the query that _catalog_exists does not catch leaves
\* get_data with the catalog untouched.
\* When force_download is set or _catalog_exists answers False (no bars, or
\* the query raised an exception it catches), get_data downloads; if the
\* download raises (the synthetic data of zero bars does), the exception
\* leaves get_data and the catalog is untouched; otherwise it attempts the
\* clear, then saves; the frame is returned unless the save raised, and the
\* catalog then holds exactly the downloaded bars if the clear succeeded and
\* the old bars as well if both of its attempts failed.  Otherwise the bars
\* are loaded from the catalog, or the exception of the query leaves
\* get_data, and the catalog is not written.
C24_ClearAttemptThenSave ==
    loader_pc = "done" =>
        /\ ~force_download =>
               (catalog_ops # <<>> /\ catalog_ops[1].op = "bars(limit=1)")
        /\ IF ExistenceCheckRaised
           THEN catalog = catalog_at_call /\ df = None
           ELSE IF force_download \/ catalog_at_call = {} \/ ~catalog_ops[1].ok
           THEN LET n == Len(AfterCheck)
                    cleared == Succeeded({"delete_data_range", "rmtree"})
                IN  IF df = None
                    THEN /\ days * 96 = 0
                         /\ loader_result = Some(Raise("IndexError"))
                         /\ AfterCheck = <<>>
                         /\ catalog = catalog_at_call
                    ELSE /\ n \in {2, 3}
                         /\ AfterCheck[1].op = "delete_data_range"
                         /\ n = 3 => (~AfterCheck[1].ok /\ AfterCheck[2].op = "rmtree")
                         /\ AfterCheck[n].op = "write_data"
                         /\ IF AfterCheck[n].ok
                            THEN /\ loader_result = Some(Return(df[1]))
                                 /\ catalog = IF cleared
                                              THEN BarsOf(df[1])
                                              ELSE catalog_at_call \cup BarsOf(df[1])
                            ELSE /\ loader_result[1].raised # "none"
                                 /\ catalog = IF cleared THEN {} ELSE catalog_at_call
           ELSE /\ Len(catalog_ops) = 2
                /\ catalog_ops[2].op = "bars"
                /\ catalog = catalog_at_call
                /\ loader_result =
                       Some(IF catalog_ops[2].ok
                            THEN Return(DataFrame("catalog", SortedSeq(catalog_at_call)))
                            ELSE Raise("FileNotFoundError"))

\* C24 witness: a forced download over a catalog that held bars, cleared by
\* the fallback, ends with exactly the two downloaded bars in the catalog.
C24_Witness ==
    /\ loader_pc = "done"
    /\ force_download
    /\ catalog_at_call # {}
    /\ df # None
    /\ catalog_ops[1].op = "delete_data_range"
    /\ ~catalog_ops[1].ok
    /\ Succeeded({"rmtree"})
    /\ Succeeded({"write_data"})
    /\ df[1].source = "binance"
    /\ Len(df[1].index) >= 2
    /\ catalog = BarsOf(df[1])
    /\ ~(catalog_at_call \subseteq catalog)

\* C25: every pass of the download loop that does not leave it appends the
\* batch and moves since to one past the timestamp of the last bar received,
\* which is larger than since was; the loop is always left, and it is left
\* with a frame and never with an exception; whenever the synthetic data
\* was generated (the fetch raised, or ccxt is missing), the download ends
\* with the synthetic frame.
C25_DownloadTerminates ==
    /\ [][(loader_pc = "fetching" /\ loader_pc' = "fetching") =>
             /\ Len(all_ohlcv') > Len(all_ohlcv)
             /\ since' = all_ohlcv'[Len(all_ohlcv')] + 1
             /\ since' > since]_vars
    /\ [][(loader_pc = "fetching" /\ loader_pc' # "fetching") =>
             /\ loader_pc' = "downloaded"
             /\ loader_result' = None
             /\ df' # None
             /\ df'[1].source \in {"binance", "synthetic"}
             /\ df'[1].source = "binance" => df'[1].index = all_ohlcv]_vars
    /\ [][np_random' # np_random =>
             /\ loader_pc' = "downloaded"
             /\ loader_result' = None
             /\ df' # None
             /\ df'[1].source = "synthetic"]_vars
    /\ (loader_pc = "fetching") ~> (loader_pc = "downloaded")

\* C26: every result row that holds max_drawdown_pct holds 0 there, whatever
\* the positions and their realized PnL.
C26_MaxDrawdownIsZero ==
    \A k \in 1..Len(results) :
        "max_drawdown_pct" \in DOMAIN results[k] =>
            results[k].max_drawdown_pct = RatZero

\* C26 witness: a run that started with a positive balance and closed a
\* losing position before a winning one reports a drawdown of 0.
C26_Witness ==
    \E k \in 1..Len(results) :
        /\ "max_drawdown_pct" \in DOMAIN results[k]
        /\ RatLt(RatZero, results[k].starting_balance)
        /\ results[k].losing_trades = 1
        /\ results[k].winning_trades = 1
        /\ results[k].max_drawdown_pct = RatZero

\* C27: an on_bar call submits at most one order, and under thresholds with
\* 0 < oversold < overbought < 100 the long and the short condition never
\* hold on the same bar.
C27_OneEntryPerBarExclusive ==
    last.op = "on_bar" =>
        /\ last.submitted <= 1
        /\ ( /\ last.previous # None
             /\ last.current # None
             /\ 0 < config.oversold_threshold
             /\ config.oversold_threshold < config.overbought_threshold
             /\ config.overbought_threshold < 100 ) =>
                ~( /\ LongCondition(last.previous[1], last.current[1],
                                    config.oversold_threshold)
                   /\ ShortCondition(last.previous[1], last.current[1],
                                     config.overbought_threshold) )

\* C27 witness: under valid thresholds a bar met the long condition and one
\* order was submitted on it.
C27_Witness ==
    /\ last.op = "on_bar"
    /\ config.oversold_threshold < config.overbought_threshold
    /\ last.previous # None
    /\ last.current # None
    /\ LongCondition(last.previous[1], last.current[1], config.oversold_threshold)
    /\ last.signal = "LONG_ENTRY"
    /\ last.submitted = 1

\* C28: after every on_bar call previous_rsi is the RSI value of that bar.
C28_PreviousRsiIsLastBar ==
    last.op = "on_bar" => previous_rsi = last.current

\* C29: a bar produces LONG_ENTRY only if the RSI of the bar before it was
\* below the oversold threshold, and SHORT_ENTRY only if it was above the
\* overbought threshold; two on_bar calls in a row never both carry a long
\* crossover, nor both a short one.
C29_EdgeTriggered ==
    /\ [][(last'.op = "on_bar" /\ rsi'.count = rsi.count + 1) =>
             /\ last'.signal = "LONG_ENTRY" =>
                    (rsi.value # None /\ rsi.value[1] < config.oversold_threshold)
             /\ last'.signal = "SHORT_ENTRY" =>
                    (rsi.value # None /\ rsi.value[1] > config.overbought_threshold)]_vars
    /\ [][(last.op = "on_bar" /\ last'.op = "on_bar" /\ rsi'.count = rsi.count + 1) =>
             /\ ~(CrossoverOfLastBar = "LONG_ENTRY" /\ CrossoverOfLastBar' = "LONG_ENTRY")
             /\ ~(CrossoverOfLastBar = "SHORT_ENTRY" /\ CrossoverOfLastBar' = "SHORT_ENTRY")]_vars

\* C29 witness: the bar after a long entry was submitted found the RSI still
\* at or above the oversold threshold, with no position tracked, and produced
\* no signal.
C29_Witness ==
    /\ last.op = "on_bar"
    /\ rsi.count = 3
    /\ current_position = None
    /\ Len(orders) = 1
    /\ orders[1].tags = "RSI_LONG_ENTRY"
    /\ last.signal = "NONE"
    /\ last.previous[1] >= config.oversold_threshold
    /\ last.current[1] >= config.oversold_threshold

\* whether 1 + pct / 100 is more than 1.0 in doubles, for the percentages of
\* the configurations (1 - pct / 100 is then less than 1.0)
MovesPrice ==
    Table([pct \in UNION {{c.stop_loss_pct, c.take_profit_pct} : c \in Configs} |->
              FLt(One, FAdd(One, FDiv(pct, Hundred)))])

\* C30 as stated: right after on_position_opened, for an entry price > 0 and
\* percentages in (0, 100), the stop and the limit bracket the entry price
\* (stop < entry < limit for LONG, limit < entry < stop for SHORT) and both
\* orders carry the quantity of the position.
C30_ProtectiveBracket ==
    last.op = "on_position_opened" =>
        LET position == current_position[1]
            entry == position.avg_px_open
            sl == orders[Len(orders) - 1]
            tp == orders[Len(orders)]
        IN  ( /\ DLt(DZero, entry)
              /\ FLt(FZero, config.stop_loss_pct)
              /\ FLt(config.stop_loss_pct, Hundred)
              /\ FLt(FZero, config.take_profit_pct)
              /\ FLt(config.take_profit_pct, Hundred) ) =>
                /\ sl.tags = "STOP_LOSS" /\ tp.tags = "TAKE_PROFIT"
                /\ sl.quantity = position.quantity
                /\ tp.quantity = position.quantity
                /\ position.side = "LONG" =>
                       (DLt(sl.price[1], entry) /\ DLt(entry, tp.price[1]))
                /\ position.side = "SHORT" =>
                       (DLt(tp.price[1], entry) /\ DLt(entry, sl.price[1]))

\* C30, amended: right after on_position_opened, for an entry price > 0 and
\* percentages in (0, 100), both orders carry the quantity of the position,
\* and the stop and the limit bracket the entry price (stop < entry < limit
\* for LONG, limit < entry < stop for SHORT) when 1 + pct / 100 is more than
\* 1.0 in doubles for both percentages.
C30_ProtectiveBracketWhenPriceMoves ==
    last.op = "on_position_opened" =>
        LET position == current_position[1]
            entry == position.avg_px_open
            sl == orders[Len(orders) - 1]
            tp == orders[Len(orders)]
        IN  ( /\ DLt(DZero, entry)
              /\ FLt(FZero, config.stop_loss_pct)
              /\ FLt(config.stop_loss_pct, Hundred)
              /\ FLt(FZero, config.take_profit_pct)
              /\ FLt(config.take_profit_pct, Hundred) ) =>
                /\ sl.tags = "STOP_LOSS" /\ tp.tags = "TAKE_PROFIT"
                /\ sl.quantity = position.quantity
                /\ tp.quantity = position.quantity
                /\ ( /\ MovesPrice[config.stop_loss_pct]
                     /\ MovesPrice[config.take_profit_pct] ) =>
                       /\ position.side = "LONG" =>
                              (DLt(sl.price[1], entry) /\ DLt(entry, tp.price[1]))
                       /\ position.side = "SHORT" =>
                              (DLt(tp.price[1], entry) /\ DLt(entry, sl.price[1]))

\* C30 witness: a SHORT position opened at 2000 under percentages that move
\* the price, with its limit below and its stop above the entry price.
C30_Witness ==
    /\ last.op = "on_position_opened"
    /\ current_position[1].side = "SHORT"
    /\ current_position[1].avg_px_open = Dec(2000, 0)
    /\ MovesPrice[config.stop_loss_pct]
    /\ MovesPrice[config.take_profit_pct]
    /\ DLt(orders[Len(orders)].price[1], Dec(2000, 0))
    /\ DLt(Dec(2000, 0), orders[Len(orders) - 1].price[1])
    /\ orders[Len(orders)].quantity = current_position[1].quantity

====
